---- MODULE Spec2Model ----
(***************************************************************************)
(* State-machine model of the mysticism engines (astrology, tarot,         *)
(* I Ching): the natal chart value and the three reveal/feedback           *)
(* protocols.  The engines are stateless; every reading state is a value   *)
(* the caller holds.  Python list objects are modelled on a heap so that   *)
(* sharing and in-place mutation are visible.                              *)
(*                                                                         *)
(* Angles are integers in thousandths of a degree (360 degrees = 360000).  *)
(***************************************************************************)
EXTENDS Integers, Sequences, FiniteSets, TLC

VARIABLES
    system,     \* ReadingSystem of the reading in progress
    heap,       \* the list objects of the astrology states: address -> list
    aStates,    \* every AstrologyReadingState value the caller holds
    tState,     \* the caller's TarotReadingState
    iState,     \* the caller's IChingReadingState
    result,     \* what the last engine call returned (or raised)
    pc,         \* position of the caller's reveal loop ("free": no loop)
    count,      \* the step counter of the loop in progress
    log,        \* what the loop in progress was handed, in order
    off,        \* record_feedback calls made outside the loop's protocol
    _aspect_defs_cache,  \* the astrology module's global of that name
    calls,      \* the chart computations made so far, in order
    cast_lines, \* cast_hexagram's local list of the lines cast so far
    _trigram_by_number,   \* the I Ching module's global of that name
    _hexagram_by_number,  \* the I Ching module's global of that name
    _binary_to_number     \* the I Ching module's global of that name

\* The three lookup maps of the I Ching module.
lookups == <<_trigram_by_number, _hexagram_by_number, _binary_to_number>>

vars == <<system, heap, aStates, tState, iState, result, pc, count, log, off,
          _aspect_defs_cache, calls, cast_lines, lookups>>

(***************************************************************************)
(* Bounds of the model.                                                    *)
(***************************************************************************)
\* AstrologyReadingState values held at once under Spec
MaxSnaps == 3
\* record_feedback calls on one I Ching state under Spec
MaxFeedback == 1
\* record_feedback calls made after the reveal loop has ended
MaxExtra == 2
\* calls with an arbitrary planet id interleaved into the astrology loop
MaxOff == 1
\* cards of the sample deck
DeckSize == 4

(***************************************************************************)
(* Values shared by the engines.                                           *)
(***************************************************************************)
None == [kind |-> "None"]

\* Optional[int] and Optional[str]: a value, or no value.
Some(x) == <<x>>

Nothing == <<>>

ReadingSystem == {"tarot", "iching", "astrology"}

UserTexts == {"Understood", "Interesting"}

FeedbackEntry(element, userText) ==
    [element |-> element, userText |-> userText, timestamp |-> 0]

\* What a call returned: the operation, the state value it was called on
\* (its index among the held values, 0 for the only one), its other
\* arguments, whether it raised, and the value it returned.
Returned(op, arg, input, raised, value) ==
    [op |-> op, arg |-> arg, input |-> input, raised |-> raised, value |-> value]

Ok(op, arg, value) == Returned(op, arg, None, FALSE, value)

(***************************************************************************)
(* Astrology: sign helpers.                                                *)
(***************************************************************************)
FullCircle == 360000

SignWidth == 30000

HalfCircle == 180000

SIGN_ORDER ==
    << "aries", "taurus", "gemini", "cancer", "leo", "virgo",
       "libra", "scorpio", "sagittarius", "capricorn", "aquarius", "pisces" >>

\* What a function call did: it raised an exception, or returned a value.
Raises(type, message) ==
    [raised |-> TRUE, error |-> [type |-> type, message |-> message],
     value |-> None]

Returns(value) ==
    [raised |-> FALSE, error |-> [type |-> "", message |-> ""], value |-> value]

\* A float argument: milli thousandths of a degree; with under, the float
\* that lies below it by less than half the float spacing at 360 (only
\* next to zero is there such a float: -1e-20 is [milli |-> 0, under |->
\* TRUE]).
Float(milli) == [milli |-> milli, under |-> FALSE]

NegTiny == [milli |-> 0, under |-> TRUE]

\* x + 360 * k in floating point: a sum away from zero absorbs the tiny part.
PlusTurns(x, k) ==
    IF k = 0 THEN x ELSE Float(x.milli + k * FullCircle)

\* Slip: an index past the last sign wraps to the first.
degrees_to_sign_call_wrapping(total_degrees) ==
    LET deg0 == total_degrees.milli % FullCircle
        sign_index == (deg0 \div SignWidth) % 12
    IN  Returns([sign |-> SIGN_ORDER[sign_index + 1],
                 degrees |-> deg0 - sign_index * SignWidth,
                 totalDegrees |-> deg0])

\* degrees_to_sign on a float.  Python's % with a positive modulus is never
\* negative, like TLA+'s; for a negative float next to zero it computes
\* x + 360, which rounds to 360.0, and SIGN_ORDER[12] raises IndexError.
degrees_to_sign_call(total_degrees) ==
    LET deg0 == total_degrees.milli % FullCircle
        deg1 == IF total_degrees.under /\ deg0 = 0 THEN FullCircle ELSE deg0
        deg == IF deg1 < 0 THEN deg1 + FullCircle ELSE deg1
        sign_index == deg \div SignWidth
        within_sign == deg - sign_index * SignWidth
    IN  IF sign_index + 1 > Len(SIGN_ORDER)
        THEN Raises("IndexError", "list index out of range")
        ELSE Returns([sign |-> SIGN_ORDER[sign_index + 1],
                      degrees |-> within_sign,
                      totalDegrees |-> deg])

\* degrees_to_sign on a float of whole thousandths: it always returns.
degrees_to_sign(total_degrees) ==
    degrees_to_sign_call(Float(total_degrees)).value

_norm_deg(deg) ==
    LET r == deg % FullCircle
    IN  IF r < 0 THEN r + FullCircle ELSE r

(***************************************************************************)
(* Binary floating point.  The program's floats are IEEE doubles, and      *)
(* where an outcome turns on how a double was rounded the model computes   *)
(* the double exactly.  Every double from 0.001 up is a whole multiple of  *)
(* 2^-62; it is held as that multiple, a natural number written in limbs   *)
(* of 15 bits, the least significant first (<<>> is 0).  Binary64 is the   *)
(* arithmetic on these numbers, one operation per arm:                     *)
(*   carry    the limbs of n, each < 2^31, with m carried in               *)
(*   trim     n without leading zero limbs                                 *)
(*   int      the whole number m                                           *)
(*   times    n * m for 0 <= m <= 60000                                    *)
(*   plus     n + m                                                        *)
(*   borrow   n - m.limbs - m.b, limb by limb (n >= m.limbs)               *)
(*   minus    n - m for n >= m                                             *)
(*   compare  -1, 0 or 1 as n is below, equal to or above m                *)
(*   modulo   n mod m                                                      *)
(*   divide   quotient q and remainder r of n with m.r carried in, by m.d  *)
(*            (m.d <= 1000)                                                *)
(*   whole    the whole number m as a multiple of 2^-62                    *)
(*   bits     the number of significant bits of n                          *)
(*   round    n + f rounded to nearest, ties to even, at 53 significant    *)
(*            bits; f < 1 is what a division left below the unit and m     *)
(*            tells it: 0 for f = 0, 1 for f < 1/2, 2 for f = 1/2, 3 for   *)
(*            f > 1/2 (n below 2^82)                                       *)
(*   double   the double nearest to abs(m) / 1000: the magnitude of a      *)
(*            float literal of m thousandths                               *)
(* and the floats the program forms from floats of whole thousandths (m    *)
(* counts thousandths and may be negative unless said otherwise):          *)
(*   gap      abs(x - y) for the doubles x, y of m[1], m[2]                *)
(*   turn     deg of degrees_to_sign(m): m % 360 in Python, where a        *)
(*            negative remainder has 360 added                             *)
(*   within   within_sign of degrees_to_sign(m): deg - sign_index * 30     *)
(*   cusp     _norm_deg(m.asc_deg + m.i * 30)                              *)
(*   orb      orb_distance of calculate_aspects for totalDegrees m.p1 and  *)
(*            m.p2 and a definition of m.degrees >= 0: the separation      *)
(*            abs(p1 - p2), taken from 360 when above 180, then            *)
(*            abs(separation - degrees)                                    *)
(* A float is named by a record [milli |-> its nearest thousandth,         *)
(* of |-> operation, x |-> argument]:                                      *)
(*   value    the float m names (of a double below zero, the magnitude)    *)
(*   order    the float m[1] names against the float m[2] names, as        *)
(*            compare                                                      *)
(*   tie      the float m.value names, times 100, against m.q + 1/2, as    *)
(*            compare                                                      *)
(***************************************************************************)
Limb(n, i) == IF i \in DOMAIN n THEN n[i] ELSE 0

RECURSIVE Binary64(_, _, _)
Binary64(op, n, m) ==
    CASE op = "carry" ->
           IF n = <<>>
           THEN IF m = 0 THEN <<>>
                ELSE <<m % 32768>> \o Binary64("carry", <<>>, m \div 32768)
           ELSE <<(Head(n) + m) % 32768>>
                    \o Binary64("carry", Tail(n), (Head(n) + m) \div 32768)
      [] op = "trim" ->
           IF n # <<>> /\ n[Len(n)] = 0
           THEN Binary64("trim", SubSeq(n, 1, Len(n) - 1), 0)
           ELSE n
      [] op = "int" -> Binary64("trim", Binary64("carry", <<m>>, 0), 0)
      [] op = "times" ->
           Binary64("trim",
                    Binary64("carry", [i \in DOMAIN n |-> n[i] * m], 0), 0)
      [] op = "plus" ->
           Binary64("trim",
                    Binary64("carry",
                             [i \in 1..(IF Len(n) < Len(m) THEN Len(m)
                                        ELSE Len(n)) |->
                                 Limb(n, i) + Limb(m, i)], 0), 0)
      [] op = "borrow" ->
           IF n = <<>> THEN <<>>
           ELSE <<(Head(n) - Limb(m.limbs, 1) - m.b) % 32768>>
                    \o Binary64("borrow", Tail(n),
                           [limbs |-> IF m.limbs = <<>> THEN <<>>
                                      ELSE Tail(m.limbs),
                            b |-> IF Head(n) - Limb(m.limbs, 1) - m.b < 0
                                  THEN 1 ELSE 0])
      [] op = "minus" ->
           Binary64("trim",
                    Binary64("borrow", n, [limbs |-> m, b |-> 0]), 0)
      [] op = "compare" ->
           IF Len(n) < Len(m) THEN -1
           ELSE IF Len(n) > Len(m) THEN 1
           ELSE IF n = <<>> THEN 0
           ELSE IF n[Len(n)] < m[Len(n)] THEN -1
           ELSE IF n[Len(n)] > m[Len(n)] THEN 1
           ELSE Binary64("compare", SubSeq(n, 1, Len(n) - 1),
                         SubSeq(m, 1, Len(n) - 1))
      [] op = "modulo" ->
           IF Binary64("compare", n, m) >= 0
           THEN Binary64("modulo", Binary64("minus", n, m), m)
           ELSE n
      [] op = "divide" ->
           IF n = <<>> THEN [q |-> <<>>, r |-> m.r]
           ELSE LET v == m.r * 32768 + n[Len(n)]
                    rest == Binary64("divide", SubSeq(n, 1, Len(n) - 1),
                                     [d |-> m.d, r |-> v % m.d])
                IN  [q |-> Append(rest.q, v \div m.d), r |-> rest.r]
      [] op = "whole" ->
           Binary64("times", <<0, 0, 0, 0>> \o Binary64("int", <<>>, m), 4)
      [] op = "bits" ->
           IF n = <<>> THEN 0
           ELSE (Len(n) - 1) * 15
                   + (CHOOSE b \in 1..15 :
                          2 ^ (b - 1) <= n[Len(n)] /\ n[Len(n)] < 2 ^ b)
      [] op = "round" ->
           LET d == Binary64("bits", n, 0) - 53
               low30 == Limb(n, 2) * 32768 + Limb(n, 1)
               low == IF d <= 0 THEN 0 ELSE low30 % (2 ^ d)
               unit == IF d <= 0 THEN 1 ELSE 2 ^ d
               odd == (low30 \div unit) % 2 = 1
               up == IF d <= 0 THEN m = 3 \/ (m = 2 /\ odd)
                     ELSE \/ 2 * low > unit
                          \/ 2 * low = unit /\ (m > 0 \/ odd)
           IN  Binary64("plus",
                        Binary64("minus", n, Binary64("int", <<>>, low)),
                        Binary64("int", <<>>, IF up THEN unit ELSE 0))
      [] op = "double" ->
           IF m = 0 THEN <<>>
           ELSE LET x == Binary64("divide",
                                  Binary64("whole", <<>>,
                                           IF m < 0 THEN -m ELSE m),
                                  [d |-> 1000, r |-> 0])
                IN  Binary64("round", Binary64("trim", x.q, 0),
                             IF x.r = 0 THEN 0
                             ELSE IF 2 * x.r < 1000 THEN 1
                             ELSE IF 2 * x.r = 1000 THEN 2 ELSE 3)
      [] op = "gap" ->
           LET x == Binary64("double", <<>>, m[1])
               y == Binary64("double", <<>>, m[2])
           IN  Binary64("round",
                        IF (m[1] < 0) # (m[2] < 0)
                        THEN Binary64("plus", x, y)
                        ELSE IF Binary64("compare", x, y) >= 0
                        THEN Binary64("minus", x, y)
                        ELSE Binary64("minus", y, x), 0)
      [] op = "turn" ->
           LET f == Binary64("modulo", Binary64("double", <<>>, m),
                             Binary64("whole", <<>>, 360))
           IN  IF m >= 0 \/ f = <<>> THEN f
               ELSE Binary64("round",
                             Binary64("minus",
                                      Binary64("whole", <<>>, 360), f), 0)
      [] op = "within" ->
           Binary64("modulo", Binary64("turn", <<>>, m),
                    Binary64("whole", <<>>, 30))
      [] op = "cusp" ->
           LET a == Binary64("double", <<>>, m.asc_deg)
               w == Binary64("whole", <<>>, 30 * m.i)
               circle == Binary64("whole", <<>>, 360)
               \* a sum below zero: (deg % 360 + 360) % 360
               f == Binary64("modulo",
                             Binary64("round", Binary64("minus", a, w), 0),
                             circle)
               lifted == IF f = <<>> THEN <<>>
                         ELSE Binary64("round",
                                       Binary64("minus", circle, f), 0)
           IN  Binary64("modulo",
                        Binary64("round",
                                 IF m.asc_deg >= 0
                                 THEN Binary64("plus", a, w)
                                 ELSE IF Binary64("compare", w, a) >= 0
                                 THEN Binary64("minus", w, a)
                                 ELSE Binary64("plus", lifted, circle), 0),
                        circle)
      [] op = "orb" ->
           LET gap == Binary64("gap", <<>>, <<m.p1, m.p2>>)
               half == Binary64("whole", <<>>, 180)
               circle == Binary64("whole", <<>>, 360)
               degrees == Binary64("double", <<>>, m.degrees)
               \* 360 - separation is below zero
               below == Binary64("compare", gap, circle) > 0
               separation ==
                   IF Binary64("compare", gap, half) <= 0 THEN gap
                   ELSE Binary64("round",
                                 IF below THEN Binary64("minus", gap, circle)
                                 ELSE Binary64("minus", circle, gap), 0)
           IN  Binary64("round",
                        IF below /\ separation # <<>>
                        THEN Binary64("plus", separation, degrees)
                        ELSE IF Binary64("compare", separation, degrees) >= 0
                        THEN Binary64("minus", separation, degrees)
                        ELSE Binary64("minus", degrees, separation), 0)
      [] op = "value" -> Binary64(m.of, <<>>, m.x)
      [] op = "order" ->
           Binary64("compare", Binary64("value", <<>>, m[1]),
                    Binary64("value", <<>>, m[2]))
      [] op = "tie" ->
           Binary64("compare",
                    Binary64("round",
                             Binary64("times",
                                      Binary64("value", <<>>, m.value), 100),
                             0),
                    Binary64("times",
                             <<0, 0, 0, 0>>
                                 \o Binary64("int", <<>>, 2 * m.q + 1), 2))

\* The float literal of x thousandths.
Double(x) == [milli |-> x, of |-> "double", x |-> x]

\* The order of two floats: -1, 0 or 1 as a is below, equal to or above b.
\* The thousandths decide where they differ.
FloatOrder(a, b) ==
    IF a.milli < b.milli THEN -1
    ELSE IF a.milli > b.milli THEN 1
    ELSE Binary64("order", <<>>, IF a.milli < 0 THEN <<b, a>> ELSE <<a, b>>)

\* round(value * 100) / 100.  Off a tie the nearest hundredth; on a tie the
\* product value * 100 is a double next to the half, or the half itself
\* (then Python's round goes to the even integer).
Round2(value) ==
    CHOOSE rounded \in
        { (IF value.milli < 0 THEN -10 ELSE 10)
              * (IF \/ x % 10 > 5
                    \/ /\ x % 10 = 5
                       /\ \E side \in {Binary64("tie", <<>>,
                                                [value |-> value,
                                                 q |-> x \div 10])} :
                              side > 0 \/ (side = 0 /\ (x \div 10) % 2 = 1)
                 THEN (x \div 10) + 1
                 ELSE x \div 10)
          : x \in {IF value.milli < 0 THEN -value.milli ELSE value.milli} }
        : TRUE

\* cusps[i] is the float _norm_deg(asc_deg + i * 30), i from 0 in the code.
_equal_house_cusps(asc_deg) ==
    [i \in 1..12 |->
        [milli |-> _norm_deg(asc_deg + (i - 1) * SignWidth),
         of |-> "cusp",
         x |-> [asc_deg |-> asc_deg, i |-> i - 1]]]

\* The float cusps[i] against the float of longitude thousandths.
CuspCompare(cusps, i, longitude) == FloatOrder(cusps[i], Double(longitude))

\* Slip: the branch for the pair that wraps around 0 degrees is missing.
HouseMatches_no_wrap(longitude, cusps, i) ==
    \E floats \in {<<cusps[i], cusps[(i % 12) + 1], Double(longitude)>>} :
    \E order \in {[pair \in {<<2, 1>>, <<1, 3>>, <<2, 3>>} |->
                      FloatOrder(floats[pair[1]], floats[pair[2]])]} :
        /\ order[<<2, 1>>] > 0
        /\ order[<<1, 3>>] <= 0
        /\ order[<<2, 3>>] > 0

\* With cusp, next_cusp and longitude as floats 1, 2 and 3:
\* cusp <= longitude < next_cusp when next_cusp > cusp, and for the pair
\* around 0 degrees longitude >= cusp or longitude < next_cusp.
HouseMatches(longitude, cusps, i) ==
    \E floats \in {<<cusps[i], cusps[(i % 12) + 1], Double(longitude)>>} :
    \E order \in {[pair \in {<<2, 1>>, <<1, 3>>, <<2, 3>>} |->
                      FloatOrder(floats[pair[1]], floats[pair[2]])]} :
        IF order[<<2, 1>>] > 0
        THEN order[<<1, 3>>] <= 0 /\ order[<<2, 3>>] > 0
        ELSE order[<<1, 3>>] <= 0 \/ order[<<2, 3>>] > 0

_house_for_longitude(longitude, cusps) ==
    LET hits == {i \in 1..12 : HouseMatches(longitude, cusps, i)}
    IN  IF hits = {} THEN 1
        ELSE CHOOSE i \in hits : \A j \in hits : i <= j

_build_position(planet_name, longitude, house_cusps, retrograde) ==
    LET sign_pos == degrees_to_sign(longitude)
    IN  [planet |-> planet_name,
         sign |-> sign_pos.sign,
         degrees |-> Round2([milli |-> sign_pos.degrees,
                             of |-> "within", x |-> longitude]),
         totalDegrees |-> Round2([milli |-> sign_pos.totalDegrees,
                                  of |-> "turn", x |-> longitude]),
         house |-> _house_for_longitude(longitude, house_cusps),
         retrograde |-> retrograde]

(***************************************************************************)
(* Astrology: the Sun sign of a calendar date.                             *)
(***************************************************************************)
_SUN_SIGN_DATES ==
    << [sign |-> "capricorn", startMonth |-> 1, startDay |-> 1],
       [sign |-> "aquarius", startMonth |-> 1, startDay |-> 20],
       [sign |-> "pisces", startMonth |-> 2, startDay |-> 19],
       [sign |-> "aries", startMonth |-> 3, startDay |-> 21],
       [sign |-> "taurus", startMonth |-> 4, startDay |-> 20],
       [sign |-> "gemini", startMonth |-> 5, startDay |-> 21],
       [sign |-> "cancer", startMonth |-> 6, startDay |-> 21],
       [sign |-> "leo", startMonth |-> 7, startDay |-> 23],
       [sign |-> "virgo", startMonth |-> 8, startDay |-> 23],
       [sign |-> "libra", startMonth |-> 9, startDay |-> 23],
       [sign |-> "scorpio", startMonth |-> 10, startDay |-> 23],
       [sign |-> "sagittarius", startMonth |-> 11, startDay |-> 22],
       [sign |-> "capricorn", startMonth |-> 12, startDay |-> 22] >>

\* The boundaries the loop's test accepts.
SunSignHits(month, day) ==
    {k \in DOMAIN _SUN_SIGN_DATES :
        \/ month > _SUN_SIGN_DATES[k].startMonth
        \/ /\ month = _SUN_SIGN_DATES[k].startMonth
           /\ day >= _SUN_SIGN_DATES[k].startDay}

\* Slip: the boundaries are walked from the first, not reversed.
calculate_sun_sign_call_forward(month, day) ==
    LET hits == SunSignHits(month, day)
    IN  IF hits = {} THEN [sign |-> "capricorn", fallback |-> TRUE]
        ELSE [sign |-> _SUN_SIGN_DATES[CHOOSE k \in hits :
                                           \A j \in hits : k <= j].sign,
              fallback |-> FALSE]

\* calculate_sun_sign: the sign, and whether it came from the return after
\* the loop.
calculate_sun_sign_call(month, day) ==
    LET hits == SunSignHits(month, day)
    IN  IF hits = {} THEN [sign |-> "capricorn", fallback |-> TRUE]
        ELSE [sign |-> _SUN_SIGN_DATES[CHOOSE k \in hits :
                                           \A j \in hits : k >= j].sign,
              fallback |-> FALSE]

calculate_sun_sign(month, day) == calculate_sun_sign_call(month, day).sign

(***************************************************************************)
(* Astrology: Julian Day.  A Julian Day is held as its whole day number    *)
(* and the minutes past it: 2447991.5 is [days |-> 2447991, minutes |->    *)
(* 720].                                                                   *)
(***************************************************************************)
\* int(x) for x = num / den, den > 0: truncation toward zero.
IntOf(num, den) ==
    IF num >= 0 THEN num \div den ELSE -((-num) \div den)

\* whole - 1524.5 days plus day_minutes minutes.
JulianDay(whole, day_minutes) ==
    [days |-> whole - 1525 + ((day_minutes + 720) \div 1440),
     minutes |-> (day_minutes + 720) % 1440]

\* Slip: the time of day is dropped.
to_julian_day_date_only(year, month, day, hour, minute) ==
    LET y == IF month <= 2 THEN year - 1 ELSE year
        m == IF month <= 2 THEN month + 12 ELSE month
        A == y \div 100
        B == 2 - A + (A \div 4)
    IN  JulianDay(IntOf(1461 * (y + 4716), 4) + IntOf(306001 * (m + 1), 10000)
                      + day + B,
                  0)

\* 365.25 is 1461/4 and 30.6001 is 306001/10000; hour and minute are whole.
to_julian_day(year, month, day, hour, minute) ==
    LET y == IF month <= 2 THEN year - 1 ELSE year
        m == IF month <= 2 THEN month + 12 ELSE month
        A == y \div 100
        B == 2 - A + (A \div 4)
    IN  JulianDay(IntOf(1461 * (y + 4716), 4) + IntOf(306001 * (m + 1), 10000)
                      + day + B,
                  hour * 60 + minute)

(***************************************************************************)
(* Astrology: aspects.  The definition table is external configuration     *)
(* (aspects.json); AspectDefinitions is a sample of it with the five       *)
(* major aspects.                                                          *)
(***************************************************************************)
AspectDefinitions ==
    << [name |-> "conjunction", symbol |-> "cnj", degrees |-> 0,
        orb |-> 8000, nature |-> "neutral"],
       [name |-> "sextile", symbol |-> "sxt", degrees |-> 60000,
        orb |-> 6000, nature |-> "harmonious"],
       [name |-> "square", symbol |-> "sqr", degrees |-> 90000,
        orb |-> 8000, nature |-> "challenging"],
       [name |-> "trine", symbol |-> "tri", degrees |-> 120000,
        orb |-> 8000, nature |-> "harmonious"],
       [name |-> "opposition", symbol |-> "opp", degrees |-> 180000,
        orb |-> 8000, nature |-> "challenging"] >>

\* Slip: a filled cache is answered with an empty table.
_load_aspect_definitions_forgetful(cache) ==
    IF cache # Nothing
    THEN [cache |-> cache, value |-> <<>>, read |-> FALSE]
    ELSE [cache |-> Some(AspectDefinitions), value |-> AspectDefinitions,
          read |-> TRUE]

\* Slip: the test of the cache is missing, the file is read on every call.
_load_aspect_definitions_rereading(cache) ==
    [cache |-> Some(AspectDefinitions), value |-> AspectDefinitions,
     read |-> TRUE]

\* A definition table whose orb windows overlap: separations from 74 to 76
\* degrees are both a sextile and a square.
OverlappingDefinitions ==
    << [name |-> "conjunction", symbol |-> "cnj", degrees |-> 0,
        orb |-> 10000, nature |-> "neutral"],
       [name |-> "sextile", symbol |-> "sxt", degrees |-> 60000,
        orb |-> 16000, nature |-> "harmonious"],
       [name |-> "square", symbol |-> "sqr", degrees |-> 90000,
        orb |-> 16000, nature |-> "challenging"],
       [name |-> "opposition", symbol |-> "opp", degrees |-> 180000,
        orb |-> 10000, nature |-> "challenging"] >>

\* _load_aspect_definitions under the global _aspect_defs_cache (Nothing:
\* None): the table it returns, the global it leaves, and whether it read
\* aspects.json.
_load_aspect_definitions(cache) ==
    IF cache # Nothing
    THEN [cache |-> cache, value |-> cache[1], read |-> FALSE]
    ELSE [cache |-> Some(AspectDefinitions), value |-> AspectDefinitions,
          read |-> TRUE]

Abs(x) == IF x < 0 THEN -x ELSE x

\* Slip: the separation is not folded into [0, 180].
Separation_unfolded(p1, p2) == Abs(p1.totalDegrees - p2.totalDegrees)

Separation(p1, p2) ==
    LET separation == Abs(p1.totalDegrees - p2.totalDegrees)
    IN  IF separation > HalfCircle THEN FullCircle - separation ELSE separation

\* The entry the loop body appends for positions i < j and definition d.
AspectEntry(positions, definitions, i, j, d) ==
    LET p1 == positions[i]
        p2 == positions[j]
        defn == definitions[d]
        separation == Separation(p1, p2)
        orb_distance ==
            [milli |-> Abs(separation - defn.degrees),
             of |-> "orb",
             x |-> [p1 |-> p1.totalDegrees, p2 |-> p2.totalDegrees,
                    degrees |-> defn.degrees]]
    IN  [planet1 |-> p1.planet,
         planet2 |-> p2.planet,
         aspectName |-> defn.name,
         aspectSymbol |-> defn.symbol,
         exactDegrees |-> defn.degrees,
         actualDegrees |-> separation,
         orb |-> Round2(orb_distance),
         nature |-> defn.nature,
         matched |-> FloatOrder(orb_distance, Double(defn.orb)) <= 0]

\* The aspects list before the sort: the three nested loops in their order.
DiscoveredAspects(positions, definitions) ==
    LET n == Len(positions)
        m == Len(definitions)
        I(k) == ((k - 1) \div (n * m)) + 1
        J(k) == (((k - 1) \div m) % n) + 1
        D(k) == ((k - 1) % m) + 1
        all == [k \in 1..(n * n * m) |->
                   IF I(k) < J(k)
                   THEN AspectEntry(positions, definitions, I(k), J(k), D(k))
                   ELSE [matched |-> FALSE]]
        hits == SelectSeq(all, LAMBDA e : e.matched)
    IN  [k \in 1..Len(hits) |->
            [f \in DOMAIN hits[k] \ {"matched"} |-> hits[k][f]]]

\* Slip: an entry is inserted in front of the entries of equal orb.
RECURSIVE InsertByOrb_unstable(_, _)
InsertByOrb_unstable(sorted, a) ==
    IF sorted = <<>> THEN <<a>>
    ELSE IF sorted[Len(sorted)].orb < a.orb THEN Append(sorted, a)
    ELSE Append(InsertByOrb_unstable(SubSeq(sorted, 1, Len(sorted) - 1), a),
                sorted[Len(sorted)])

\* list.sort(key=orb): a stable sort, here by insertion behind the entries
\* whose orb is not larger.
RECURSIVE InsertByOrb(_, _)
InsertByOrb(sorted, a) ==
    IF sorted = <<>> THEN <<a>>
    ELSE IF sorted[Len(sorted)].orb <= a.orb THEN Append(sorted, a)
    ELSE Append(InsertByOrb(SubSeq(sorted, 1, Len(sorted) - 1), a),
                sorted[Len(sorted)])

RECURSIVE SortByOrb(_)
SortByOrb(aspects) ==
    IF aspects = <<>> THEN <<>>
    ELSE InsertByOrb(SortByOrb(SubSeq(aspects, 1, Len(aspects) - 1)),
                     aspects[Len(aspects)])

calculate_aspects(positions, cache) ==
    LET definitions == _load_aspect_definitions(cache)
    IN  [cache |-> definitions.cache,
         value |-> SortByOrb(DiscoveredAspects(positions, definitions.value)),
         read |-> definitions.read,
         definitions |-> definitions.value]

(***************************************************************************)
(* Astrology: the natal chart.  The longitudes come out of floating-point  *)
(* series (sun_longitude, moon_longitude, heliocentric_longitude,          *)
(* geocentric_longitude, compute_ascendant, compute_midheaven); the row    *)
(* tables hold what the code computes at the Julian Days and places of the *)
(* sample births, in thousandths of a degree: the nearest one, or its      *)
(* neighbour on the side of the computed value where the nearest ends in   *)
(* 5, so that rounding to hundredths gives what the code's rounding gives. *)
(***************************************************************************)
NewYork1990 ==
    [year |-> 1990, month |-> 3, day |-> Some(25), hour |-> Some(12),
     minute |-> Some(0), latitude |-> Some(40713), longitude |-> Some(-74006),
     timezone |-> Some(-5)]

Philadelphia1776 ==
    [year |-> 1776, month |-> 7, day |-> Some(4), hour |-> Some(12),
     minute |-> Some(0), latitude |-> Some(39953), longitude |-> Some(-75165),
     timezone |-> Some(-5)]

Greenwich2000 ==
    [year |-> 2000, month |-> 1, day |-> Some(1), hour |-> Some(12),
     minute |-> Some(0), latitude |-> Some(0), longitude |-> Some(0),
     timezone |-> Some(0)]

BirthDataSamples == {NewYork1990, Philadelphia1776, Greenwich2000}

\* Births at which the Moon stands within half a hundredth of a degree
\* below a sign boundary: 359.9977 and 269.9956.
MoonEndOfPisces ==
    [year |-> 2000, month |-> 4, day |-> Some(3), hour |-> Some(15),
     minute |-> Some(23), latitude |-> Some(0), longitude |-> Some(0),
     timezone |-> Some(0)]

MoonEndOfSagittarius ==
    [year |-> 2000, month |-> 1, day |-> Some(5), hour |-> Some(10),
     minute |-> Some(24), latitude |-> Some(0), longitude |-> Some(0),
     timezone |-> Some(0)]

\* BirthData(year=2000, month=6): every optional field is None.
June2000 ==
    [year |-> 2000, month |-> 6, day |-> Nothing, hour |-> Nothing,
     minute |-> Nothing, latitude |-> Nothing, longitude |-> Nothing,
     timezone |-> Nothing]

\* Explicit zeros: hour 0, minute 0, latitude 0, longitude 0, timezone 0.
Midnight2000 ==
    [year |-> 2000, month |-> 1, day |-> Some(1), hour |-> Some(0),
     minute |-> Some(0), latitude |-> Some(0), longitude |-> Some(0),
     timezone |-> Some(0)]

\* Births with a planet passing 0 degrees of Aries between the day before
\* and the day after: Mercury and Jupiter backward, Mercury and Mars
\* forward.
MercuryBackAcrossAries ==
    [year |-> 1992, month |-> 4, day |-> Some(3), hour |-> Some(12),
     minute |-> Some(0), latitude |-> Some(0), longitude |-> Some(0),
     timezone |-> Some(0)]

MercuryForwardAcrossAries ==
    [year |-> 1990, month |-> 3, day |-> Some(19), hour |-> Some(12),
     minute |-> Some(0), latitude |-> Some(0), longitude |-> Some(0),
     timezone |-> Some(0)]

JupiterBackAcrossAries ==
    [year |-> 2010, month |-> 9, day |-> Some(7), hour |-> Some(12),
     minute |-> Some(0), latitude |-> Some(0), longitude |-> Some(0),
     timezone |-> Some(0)]

MarsForwardAcrossAries ==
    [year |-> 1992, month |-> 5, day |-> Some(5), hour |-> Some(12),
     minute |-> Some(0), latitude |-> Some(0), longitude |-> Some(0),
     timezone |-> Some(0)]

\* London, 1985-06-15 10:30 at +1h, with every subset of its optional
\* fields left None.
LondonVariants ==
    [year : {1985}, month : {6}, day : {Nothing, Some(15)},
     hour : {Nothing, Some(10)}, minute : {Nothing, Some(30)},
     latitude : {Nothing, Some(51507)}, longitude : {Nothing, Some(-128)},
     timezone : {Nothing, Some(1)}]

\* days, minutes, sun, moon, mercury, venus, mars, jupiter, saturn, uranus,
\* neptune, pluto
LongitudeRows ==
    {
      <<2369915, 300, 102166, 309602, 117753, 94753, 83688, 98824, 197780, 71906, 175559, 301162>>,
      <<2369916, 300, 103118, 324044, 117332, 95979, 84371, 99050, 197810, 71957, 175576, 301140>>,
      <<2369917, 300, 104072, 338502, 116851, 97206, 85053, 99276, 197840, 72008, 175593, 301117>>,
      <<2446216, 1260, 69854, 211152, 61346, 24912, 84154, 317182, 233847, 256451, 273036, 212036>>,
      <<2446216, 1290, 69874, 211460, 61390, 24930, 84169, 317182, 233846, 256450, 273036, 212036>>,
      <<2446216, 1320, 69894, 211768, 61434, 24948, 84183, 317183, 233844, 256449, 273034, 212036>>,
      <<2446216, 1350, 69914, 212077, 61478, 24966, 84197, 317183, 233842, 256448, 273034, 212034>>,
      <<2446216, 1380, 69934, 212384, 61522, 24983, 84211, 317183, 233841, 256447, 273034, 212034>>,
      <<2446216, 1410, 69954, 212693, 61566, 25001, 84224, 317183, 233839, 256447, 273033, 212034>>,
      <<2446217, 0, 69974, 213002, 61609, 25018, 84239, 317184, 233838, 256446, 273033, 212034>>,
      <<2446217, 30, 69994, 213311, 61653, 25036, 84253, 317184, 233836, 256444, 273032, 212033>>,
      <<2446217, 1260, 70813, 226000, 63462, 25764, 84827, 317194, 233777, 256410, 273012, 212017>>,
      <<2446217, 1290, 70833, 226310, 63507, 25782, 84841, 317196, 233776, 256409, 273011, 212016>>,
      <<2446217, 1320, 70853, 226620, 63551, 25799, 84856, 317196, 233774, 256408, 273010, 212016>>,
      <<2446217, 1350, 70872, 226930, 63596, 25817, 84869, 317196, 233772, 256407, 273010, 212016>>,
      <<2446217, 1380, 70892, 227241, 63640, 25836, 84883, 317196, 233771, 256407, 273009, 212014>>,
      <<2446217, 1410, 70912, 227551, 63684, 25853, 84897, 317196, 233769, 256406, 273009, 212014>>,
      <<2446218, 0, 70932, 227861, 63729, 25871, 84911, 317196, 233768, 256404, 273008, 212014>>,
      <<2446218, 30, 70952, 228171, 63773, 25889, 84926, 317197, 233766, 256404, 273008, 212014>>,
      <<2446218, 1260, 71771, 240881, 65603, 26626, 85499, 317204, 233707, 256369, 272987, 211997>>,
      <<2446218, 1290, 71791, 241190, 65648, 26644, 85513, 317204, 233706, 256368, 272986, 211997>>,
      <<2446218, 1320, 71811, 241500, 65693, 26662, 85527, 317206, 233704, 256367, 272986, 211997>>,
      <<2446218, 1350, 71831, 241809, 65738, 26680, 85541, 317206, 233703, 256366, 272986, 211996>>,
      <<2446218, 1380, 71851, 242118, 65783, 26698, 85554, 317206, 233702, 256366, 272984, 211996>>,
      <<2446218, 1410, 71871, 242428, 65827, 26716, 85569, 317206, 233700, 256364, 272984, 211996>>,
      <<2446219, 0, 71890, 242737, 65872, 26734, 85583, 317206, 233699, 256364, 272984, 211996>>,
      <<2446219, 30, 71910, 243046, 65917, 26752, 85597, 317206, 233697, 256363, 272983, 211994>>,
      <<2446230, 1260, 83249, 37276, 91780, 37658, 93512, 317073, 232936, 255876, 272677, 211800>>,
      <<2446230, 1290, 83269, 37523, 91823, 37678, 93526, 317072, 232934, 255874, 272677, 211799>>,
      <<2446230, 1320, 83289, 37769, 91867, 37698, 93540, 317072, 232933, 255874, 272676, 211799>>,
      <<2446230, 1350, 83308, 38016, 91911, 37718, 93554, 317071, 232932, 255873, 272676, 211799>>,
      <<2446230, 1380, 83328, 38262, 91956, 37738, 93568, 317071, 232931, 255872, 272676, 211798>>,
      <<2446230, 1410, 83348, 38508, 91999, 37759, 93582, 317070, 232929, 255871, 272674, 211798>>,
      <<2446231, 0, 83368, 38754, 92043, 37779, 93596, 317069, 232928, 255870, 272674, 211798>>,
      <<2446231, 30, 83388, 39001, 92087, 37799, 93609, 317069, 232927, 255870, 272673, 211798>>,
      <<2446231, 1260, 84204, 49138, 93874, 38626, 94177, 317042, 232877, 255834, 272651, 211786>>,
      <<2446231, 1290, 84224, 49386, 93917, 38647, 94190, 317041, 232876, 255834, 272650, 211786>>,
      <<2446231, 1320, 84244, 49634, 93960, 38667, 94204, 317040, 232874, 255833, 272650, 211786>>,
      <<2446231, 1350, 84264, 49883, 94004, 38687, 94218, 317039, 232873, 255832, 272649, 211786>>,
      <<2446231, 1380, 84284, 50131, 94047, 38707, 94232, 317039, 232872, 255831, 272648, 211784>>,
      <<2446231, 1410, 84303, 50379, 94090, 38728, 94246, 317038, 232871, 255831, 272648, 211784>>,
      <<2446232, 0, 84323, 50628, 94133, 38748, 94260, 317037, 232870, 255830, 272647, 211784>>,
      <<2446232, 30, 84343, 50876, 94177, 38768, 94273, 317037, 232869, 255829, 272647, 211784>>,
      <<2446232, 1260, 85159, 61119, 95938, 39601, 94840, 317007, 232820, 255794, 272624, 211773>>,
      <<2446232, 1290, 85179, 61371, 95981, 39621, 94854, 317006, 232819, 255793, 272623, 211772>>,
      <<2446232, 1320, 85199, 61622, 96024, 39642, 94868, 317006, 232817, 255793, 272623, 211772>>,
      <<2446232, 1350, 85219, 61873, 96066, 39662, 94882, 317004, 232816, 255792, 272622, 211772>>,
      <<2446232, 1380, 85238, 62124, 96109, 39682, 94896, 317004, 232816, 255791, 272622, 211772>>,
      <<2446232, 1410, 85258, 62377, 96152, 39703, 94909, 317003, 232814, 255790, 272621, 211771>>,
      <<2446233, 0, 85278, 62628, 96194, 39723, 94923, 317002, 232813, 255789, 272621, 211771>>,
      <<2446233, 30, 85298, 62880, 96237, 39744, 94937, 317002, 232812, 255788, 272620, 211771>>,
      <<2447969, 0, 357632, 255410, 357126, 311853, 305212, 91766, 293632, 279432, 284466, 226619>>,
      <<2447970, 0, 358626, 267448, 359100, 312751, 305954, 91836, 293703, 279454, 284482, 226603>>,
      <<2447971, 0, 359620, 279689, 1088, 313658, 306696, 91909, 293773, 279476, 284497, 226588>>,
      <<2447975, 300, 3796, 335156, 9581, 317573, 309824, 92248, 294053, 279556, 284554, 226516>>,
      <<2447976, 300, 4787, 349470, 11613, 318524, 310568, 92336, 294116, 279572, 284566, 226498>>,
      <<2447977, 300, 5778, 4146, 13643, 319484, 311312, 92426, 294177, 279588, 284577, 226480>>,
      <<2448715, 0, 12999, 4660, 972, 354181, 334312, 155913, 316100, 287977, 288969, 231454>>,
      <<2448716, 0, 13984, 17399, 400, 355414, 335087, 155831, 316181, 287993, 288979, 231434>>,
      <<2448717, 0, 14969, 30361, 359912, 356647, 335862, 155751, 316262, 288008, 288988, 231414>>,
      <<2448747, 0, 44268, 66616, 19690, 33588, 359026, 154726, 318064, 288068, 289001, 230689>>,
      <<2448748, 0, 45237, 80542, 21131, 34818, 359793, 154738, 318102, 288057, 288993, 230662>>,
      <<2448749, 0, 46206, 94588, 22607, 36048, 560, 154754, 318138, 288046, 288984, 230636>>,
      <<2451543, 720, 278844, 205074, 269617, 239707, 326810, 25293, 40256, 314727, 303134, 250136>>,
      <<2451544, 0, 279353, 211204, 270394, 240311, 327198, 25311, 40244, 314752, 303152, 250154>>,
      <<2451544, 720, 279863, 217281, 271171, 240914, 327586, 25330, 40234, 314777, 303170, 250171>>,
      <<2451545, 0, 280373, 223314, 271951, 241519, 327974, 25350, 40224, 314802, 303187, 250188>>,
      <<2451545, 720, 280882, 229310, 272731, 242124, 328361, 25370, 40214, 314828, 303206, 250206>>,
      <<2451546, 0, 281392, 235277, 273512, 242729, 328749, 25392, 40206, 314853, 303223, 250222>>,
      <<2451547, 1344, 283362, 258181, 276546, 245071, 330248, 25483, 40174, 314952, 303293, 250287>>,
      <<2451548, 1344, 284382, 269996, 278123, 246284, 331024, 25534, 40162, 315004, 303329, 250321>>,
      <<2451549, 1344, 285401, 281840, 279706, 247498, 331799, 25590, 40150, 315056, 303366, 250353>>,
      <<2451637, 203, 13190, 346708, 345864, 354900, 37749, 39617, 45546, 319713, 306213, 251466>>,
      <<2451638, 203, 14176, 359998, 347067, 356133, 38476, 39844, 45661, 319752, 306232, 251456>>,
      <<2451639, 203, 15160, 13638, 348304, 357367, 39201, 40071, 45778, 319791, 306250, 251444>>,
      <<2451696, 0, 70332, 42487, 92071, 67361, 79178, 53439, 52936, 320789, 306414, 250238>>,
      <<2451697, 0, 71290, 57156, 93503, 68591, 79860, 53671, 53061, 320783, 306402, 250211>>,
      <<2451698, 0, 72248, 72093, 94883, 69820, 80541, 53902, 53186, 320777, 306389, 250184>>,
      <<2455446, 0, 163797, 136197, 158156, 208241, 204257, 189, 184529, 359053, 326690, 271941>>,
      <<2455447, 0, 164767, 151337, 157380, 209030, 204916, 66, 184647, 359014, 326664, 271938>>,
      <<2455448, 0, 165738, 166620, 156701, 209807, 205574, 359941, 184766, 358976, 326639, 271936>>
    }

\* days, minutes, latitude, longitude, ascendant, midheaven
AngleRows ==
    {
      <<2369916, 300, 39953, -75165, 10461, 102044>>,
      <<2446217, 1260, 0, -128, 292847, 26590>>,
      <<2446217, 1260, 0, 0, 292968, 26724>>,
      <<2446217, 1260, 51507, -128, 314180, 26590>>,
      <<2446217, 1260, 51507, 0, 314270, 26724>>,
      <<2446217, 1290, 0, -128, 300004, 34451>>,
      <<2446217, 1290, 0, 0, 300128, 34583>>,
      <<2446217, 1290, 51507, -128, 319444, 34451>>,
      <<2446217, 1290, 51507, 0, 319533, 34583>>,
      <<2446217, 1320, 0, -128, 307303, 42149>>,
      <<2446217, 1320, 0, 0, 307429, 42278>>,
      <<2446217, 1320, 51507, -128, 324696, 42149>>,
      <<2446217, 1320, 51507, 0, 324784, 42278>>,
      <<2446217, 1350, 0, -128, 314762, 49676>>,
      <<2446217, 1350, 0, 0, 314891, 49803>>,
      <<2446217, 1350, 51507, -128, 329947, 49676>>,
      <<2446217, 1350, 51507, 0, 330037, 49803>>,
      <<2446217, 1380, 0, -128, 322391, 57039>>,
      <<2446217, 1380, 0, 0, 322522, 57163>>,
      <<2446217, 1380, 51507, -128, 335206, 57039>>,
      <<2446217, 1380, 51507, 0, 335296, 57163>>,
      <<2446217, 1410, 0, -128, 330187, 64251>>,
      <<2446217, 1410, 0, 0, 330321, 64372>>,
      <<2446217, 1410, 51507, -128, 340476, 64251>>,
      <<2446217, 1410, 51507, 0, 340566, 64372>>,
      <<2446218, 0, 0, -128, 338136, 71337>>,
      <<2446218, 0, 0, 0, 338273, 71457>>,
      <<2446218, 0, 51507, -128, 345759, 71337>>,
      <<2446218, 0, 51507, 0, 345849, 71457>>,
      <<2446218, 30, 0, -128, 346210, 78327>>,
      <<2446218, 30, 0, 0, 346348, 78446>>,
      <<2446218, 30, 51507, -128, 351053, 78327>>,
      <<2446218, 30, 51507, 0, 351143, 78446>>,
      <<2446231, 1260, 0, -128, 306087, 40889>>,
      <<2446231, 1260, 0, 0, 306212, 41019>>,
      <<2446231, 1260, 51507, -128, 323829, 40889>>,
      <<2446231, 1260, 51507, 0, 323918, 41019>>,
      <<2446231, 1290, 0, -128, 313519, 48444>>,
      <<2446231, 1290, 0, 0, 313647, 48572>>,
      <<2446231, 1290, 51507, -128, 329079, 48444>>,
      <<2446231, 1290, 51507, 0, 329169, 48572>>,
      <<2446231, 1320, 0, -128, 321119, 55834>>,
      <<2446231, 1320, 0, 0, 321250, 55958>>,
      <<2446231, 1320, 51507, -128, 334337, 55834>>,
      <<2446231, 1320, 51507, 0, 334426, 55958>>,
      <<2446231, 1350, 0, -128, 328889, 63069>>,
      <<2446231, 1350, 0, 0, 329022, 63191>>,
      <<2446231, 1350, 51507, -128, 339606, 63069>>,
      <<2446231, 1350, 51507, 0, 339694, 63191>>,
      <<2446231, 1380, 0, -128, 336814, 70174>>,
      <<2446231, 1380, 0, 0, 336950, 70294>>,
      <<2446231, 1380, 51507, -128, 344886, 70174>>,
      <<2446231, 1380, 51507, 0, 344976, 70294>>,
      <<2446231, 1410, 0, -128, 344870, 77178>>,
      <<2446231, 1410, 0, 0, 345008, 77296>>,
      <<2446231, 1410, 51507, -128, 350178, 77178>>,
      <<2446231, 1410, 51507, 0, 350268, 77296>>,
      <<2446232, 0, 0, -128, 353017, 84113>>,
      <<2446232, 0, 0, 0, 353156, 84231>>,
      <<2446232, 0, 51507, -128, 355478, 84113>>,
      <<2446232, 0, 51507, 0, 355568, 84231>>,
      <<2446232, 30, 0, -128, 1208, 91017>>,
      <<2446232, 30, 0, 0, 1348, 91134>>,
      <<2446232, 30, 51507, -128, 782, 91017>>,
      <<2446232, 30, 51507, 0, 872, 91134>>,
      <<2447970, 0, 0, 0, 267037, 356482>>,
      <<2447976, 300, 40713, -74006, 292068, 4233>>,
      <<2448716, 0, 0, 0, 281094, 13113>>,
      <<2448748, 0, 0, 0, 311149, 46072>>,
      <<2451544, 720, 0, 0, 10844, 99160>>,
      <<2451545, 0, 0, 0, 191378, 279614>>,
      <<2451548, 1344, 0, 0, 169487, 261122>>,
      <<2451638, 203, 0, 0, 330970, 64959>>,
      <<2451697, 0, 0, 0, 338659, 71794>>,
      <<2455447, 0, 0, 0, 77538, 165289>>
    }

\* days, minutes, mercury, venus, earth, mars, jupiter, saturn, uranus,
\* neptune, pluto
HeliocentricRows ==
    {
      <<2369916, 300, 272113, 81394, 286247, 69954, 97636, 203828, 70257, 177366, 300260>>,
      <<2447970, 0, 256, 215184, 178764, 272763, 102896, 288543, 276561, 282676, 226186>>,
      <<2447976, 300, 32768, 225130, 184924, 276360, 103414, 288731, 276632, 282712, 226229>>,
      <<2448716, 0, 213476, 329286, 194092, 308263, 162396, 311269, 285061, 287098, 231403>>,
      <<2448748, 0, 306239, 20142, 225343, 328404, 164847, 312256, 285423, 287287, 231626>>,
      <<2451544, 720, 252411, 181798, 99871, 359136, 36334, 45561, 316394, 303913, 250532>>,
      <<2451545, 0, 253784, 182607, 100380, 359448, 36380, 45579, 316399, 303916, 250536>>,
      <<2451548, 1344, 264594, 188968, 104389, 1907, 36739, 45721, 316442, 303940, 250561>>,
      <<2451638, 203, 268023, 330918, 194180, 54583, 44838, 48953, 317411, 304471, 251142>>,
      <<2451697, 0, 178169, 64811, 251293, 85408, 50153, 51093, 318051, 304822, 251524>>,
      <<2455447, 0, 358416, 313421, 344617, 229760, 356961, 186704, 358301, 327250, 274367>>
    }

Planets ==
    << "sun", "moon", "mercury", "venus", "mars", "jupiter", "saturn",
       "uranus", "neptune", "pluto" >>

\* The bodies that have orbital elements, in the order of the table.
ORBITAL_ELEMENTS ==
    << "mercury", "venus", "earth", "mars", "jupiter", "saturn", "uranus",
       "neptune", "pluto" >>

IndexOf(seq, x) == CHOOSE k \in DOMAIN seq : seq[k] = x

LongitudeRow(jd) ==
    CHOOSE r \in LongitudeRows : r[1] = jd.days /\ r[2] = jd.minutes

sun_longitude(jd) == LongitudeRow(jd)[2 + IndexOf(Planets, "sun")]

moon_longitude(jd) == LongitudeRow(jd)[2 + IndexOf(Planets, "moon")]

heliocentric_longitude(planet_id, jd) ==
    IF planet_id \notin {ORBITAL_ELEMENTS[k] : k \in DOMAIN ORBITAL_ELEMENTS}
    THEN Raises("ValueError", "No orbital elements for: " \o planet_id)
    ELSE LET r == CHOOSE r \in HeliocentricRows :
                      r[1] = jd.days /\ r[2] = jd.minutes
         IN  Returns(r[2 + IndexOf(ORBITAL_ELEMENTS, planet_id)])

\* ORBITAL_ELEMENTS[planet_id] raises KeyError for an id it does not hold.
geocentric_longitude(planet_id, jd) ==
    IF planet_id = "earth"
    THEN Raises("ValueError", "Cannot compute geocentric longitude of Earth")
    ELSE IF planet_id \notin
                {ORBITAL_ELEMENTS[k] : k \in DOMAIN ORBITAL_ELEMENTS}
    THEN Raises("KeyError", planet_id)
    ELSE Returns(LongitudeRow(jd)[2 + IndexOf(Planets, planet_id)])

\* Slip: the difference is not wrapped around 0/360 degrees.
_is_retrograde_unwrapped(planet_id, jd) ==
    IF planet_id \in {"sun", "moon"} THEN FALSE
    ELSE geocentric_longitude(planet_id, [jd EXCEPT !.days = @ + 1]).value
             < geocentric_longitude(planet_id,
                                    [jd EXCEPT !.days = @ - 1]).value

_is_retrograde(planet_id, jd) ==
    IF planet_id \in {"sun", "moon"} THEN FALSE
    ELSE LET lon_before ==
                 geocentric_longitude(planet_id,
                                      [jd EXCEPT !.days = @ - 1]).value
             lon_after ==
                 geocentric_longitude(planet_id,
                                      [jd EXCEPT !.days = @ + 1]).value
             diff0 == lon_after - lon_before
             diff1 == IF diff0 > HalfCircle THEN diff0 - FullCircle ELSE diff0
             diff == IF diff1 < -HalfCircle THEN diff1 + FullCircle ELSE diff1
         IN  diff < 0

\* _obliquity and _local_sidereal_time, then compute_ascendant and
\* compute_midheaven.
AscendantAndMidheaven(jd, latitude, longitude_geo) ==
    LET r == CHOOSE r \in AngleRows :
                 /\ r[1] = jd.days /\ r[2] = jd.minutes
                 /\ r[3] = latitude /\ r[4] = longitude_geo
    IN  [asc_deg |-> r[5], mc_deg |-> r[6]]

\* Slip: "value or default", which also replaces an explicit 0.
BirthDefaults_falsy(birth_data) ==
    LET or(field, default) ==
            IF field # Nothing /\ field[1] # 0 THEN field[1] ELSE default
    IN  [day |-> or(birth_data.day, 1),
         hour |-> or(birth_data.hour, 12),
         minute |-> or(birth_data.minute, 0),
         latitude |-> or(birth_data.latitude, 0),
         longitude_geo |-> or(birth_data.longitude, 0),
         timezone |-> or(birth_data.timezone, 0)]

\* The defaults for the fields that are None.
BirthDefaults(birth_data) ==
    LET or(field, default) == IF field # Nothing THEN field[1] ELSE default
    IN  [day |-> or(birth_data.day, 1),
         hour |-> or(birth_data.hour, 12),
         minute |-> or(birth_data.minute, 0),
         latitude |-> or(birth_data.latitude, 0),
         longitude_geo |-> or(birth_data.longitude, 0),
         timezone |-> or(birth_data.timezone, 0)]

\* calculate_natal_chart under the global _aspect_defs_cache: the chart it
\* returns and the global it leaves.
calculate_natal_chart(birth_data, cache) ==
    LET b == BirthDefaults(birth_data)
        ut_hour == b.hour - b.timezone
        ut_minute == b.minute
        jd == to_julian_day(birth_data.year, birth_data.month, b.day,
                            ut_hour, ut_minute)
        angles == AscendantAndMidheaven(jd, b.latitude, b.longitude_geo)
        cusps == _equal_house_cusps(angles.asc_deg)
        lon(p) == IF p = "sun" THEN sun_longitude(jd)
                  ELSE IF p = "moon" THEN moon_longitude(jd)
                  ELSE geocentric_longitude(p, jd).value
        pos(p) == _build_position(p, lon(p), cusps,
                      IF p \in {"sun", "moon"} THEN FALSE
                      ELSE _is_retrograde(p, jd))
        all_positions == [k \in 1..Len(Planets) |-> pos(Planets[k])]
        aspects == calculate_aspects(all_positions, cache)
    IN  [cache |-> aspects.cache,
         read |-> aspects.read,
         definitions |-> aspects.definitions,
         value |-> [sun |-> all_positions[1], moon |-> all_positions[2],
                    mercury |-> all_positions[3], venus |-> all_positions[4],
                    mars |-> all_positions[5], jupiter |-> all_positions[6],
                    saturn |-> all_positions[7], uranus |-> all_positions[8],
                    neptune |-> all_positions[9], pluto |-> all_positions[10],
                    ascendant |-> degrees_to_sign(angles.asc_deg),
                    midheaven |-> degrees_to_sign(angles.mc_deg),
                    aspects |-> aspects.value,
                    houseCusps |-> cusps]]

(***************************************************************************)
(* AstrologyEngine.  An AstrologyReadingState holds its chart and its      *)
(* three lists by address: chart, revealedPlanets, revealedHouses and      *)
(* userFeedback are objects on the heap h.  No call writes to a chart.     *)
(***************************************************************************)
DEFAULT_REVEAL_ORDER ==
    << "sun", "moon", "ascendant", "mercury", "venus", "mars",
       "jupiter", "saturn", "uranus", "neptune", "pluto" >>

Range(s) == {s[k] : k \in DOMAIN s}

AstrologyEngine_start_reading(h, birth_data) ==
    [heap |-> h \o << calculate_natal_chart(birth_data, Nothing).value,
                      <<>>, <<>>, <<>> >>,
     state |-> [birthData |-> birth_data,
                chart |-> Len(h) + 1,
                revealedPlanets |-> Len(h) + 2,
                revealedHouses |-> Len(h) + 3,
                userFeedback |-> Len(h) + 4]]

\* The names a NatalChart answers to besides its fields with a value other
\* than None: getattr finds them and returns the attribute, which is no
\* position.  __hash__ and __weakref__ are None on a NatalChart.
ObjectAttributes ==
    {"__annotations__", "__class__", "__dataclass_fields__",
     "__dataclass_params__", "__delattr__", "__dict__", "__dir__", "__doc__",
     "__eq__", "__format__", "__ge__", "__getattribute__", "__getstate__",
     "__gt__", "__init__", "__init_subclass__", "__le__", "__lt__",
     "__match_args__", "__module__", "__ne__", "__new__", "__reduce__",
     "__reduce_ex__", "__repr__", "__setattr__", "__sizeof__", "__str__",
     "__subclasshook__"}

AstrologyEngine__get_chart_position(planet_id, chart) ==
    IF planet_id = "ascendant"
    THEN [planet |-> "ascendant",
          sign |-> chart.ascendant.sign,
          degrees |-> chart.ascendant.degrees,
          totalDegrees |-> chart.ascendant.totalDegrees,
          house |-> 1,
          retrograde |-> FALSE]
    ELSE IF planet_id = "midheaven"
    THEN [planet |-> "midheaven",
          sign |-> chart.midheaven.sign,
          degrees |-> chart.midheaven.degrees,
          totalDegrees |-> chart.midheaven.totalDegrees,
          house |-> 10,
          retrograde |-> FALSE]
    ELSE IF planet_id \in DOMAIN chart THEN chart[planet_id]
    ELSE IF planet_id \in ObjectAttributes THEN [attribute |-> planet_id]
    ELSE None

\* Slip: the loop stops at the first id of the order, revealed or not,
\* that follows the revealed ones in number.
AstrologyEngine_get_next_reveal_by_count(h, state) ==
    LET n == Len(h[state.revealedPlanets])
    IN  IF n >= Len(DEFAULT_REVEAL_ORDER) THEN None
        ELSE [planet |-> DEFAULT_REVEAL_ORDER[n + 1],
              position |->
                  AstrologyEngine__get_chart_position(
                      DEFAULT_REVEAL_ORDER[n + 1], h[state.chart])]

AstrologyEngine_get_next_reveal(h, state) ==
    LET revealed == Range(h[state.revealedPlanets])
        unrevealed == {k \in DOMAIN DEFAULT_REVEAL_ORDER :
                          DEFAULT_REVEAL_ORDER[k] \notin revealed}
    IN  IF unrevealed = {} THEN None
        ELSE LET k == CHOOSE k \in unrevealed : \A j \in unrevealed : k <= j
                 planet_id == DEFAULT_REVEAL_ORDER[k]
             IN  [planet |-> planet_id,
                  position |->
                      AstrologyEngine__get_chart_position(planet_id,
                                                          h[state.chart])]

\* Slip: list.append on the input state's own lists, which the returned
\* state then shares.
AstrologyEngine_record_feedback_in_place(h, state, planet_id, feedback) ==
    [heap |-> [h EXCEPT ![state.revealedPlanets] = Append(@, planet_id),
                        ![state.userFeedback] = Append(@, feedback)],
     state |-> state,
     raised |-> FALSE]

\* Slip: the tarot engine's guard, carried over.
AstrologyEngine_record_feedback_guarded(h, state, planet_id, feedback) ==
    IF Len(h[state.revealedPlanets]) >= Len(DEFAULT_REVEAL_ORDER)
    THEN [heap |-> h, state |-> state, raised |-> TRUE]
    ELSE [heap |-> h \o << Append(h[state.revealedPlanets], planet_id),
                           h[state.revealedHouses],
                           Append(h[state.userFeedback], feedback) >>,
          state |-> [birthData |-> state.birthData,
                     chart |-> state.chart,
                     revealedPlanets |-> Len(h) + 1,
                     revealedHouses |-> Len(h) + 2,
                     userFeedback |-> Len(h) + 3],
          raised |-> FALSE]

\* Three new list objects; the lists of the input state are read, not written.
AstrologyEngine_record_feedback(h, state, planet_id, feedback) ==
    [heap |-> h \o << Append(h[state.revealedPlanets], planet_id),
                      h[state.revealedHouses],
                      Append(h[state.userFeedback], feedback) >>,
     state |-> [birthData |-> state.birthData,
                chart |-> state.chart,
                revealedPlanets |-> Len(h) + 1,
                revealedHouses |-> Len(h) + 2,
                userFeedback |-> Len(h) + 3],
     raised |-> FALSE]

\* Slip: the planets of the summary are marked as revealed, in place, on
\* the state handed in.
AstrologyEngine_get_synthesis_marking_revealed(h, state) ==
    [heap |-> [h EXCEPT ![state.revealedPlanets] = Planets],
     state |-> state,
     raised |-> FALSE,
     value |-> [sunSign |-> h[state.chart].sun.sign,
                moonSign |-> h[state.chart].moon.sign,
                ascendant |-> h[state.chart].ascendant.sign]]

\* No path of get_synthesis raises, and none reads the lists.  The body
\* holds no assignment and no call that writes: the objects and the state
\* handed in are as they were.
AstrologyEngine_get_synthesis(h, state) ==
    LET chart == h[state.chart]
    IN  [heap |-> h,
         state |-> state,
         raised |-> FALSE,
         value |->
            [sunSign |-> chart.sun.sign,
             moonSign |-> chart.moon.sign,
             ascendant |-> chart.ascendant.sign,
             planets |-> [p \in Range(Planets) |->
                             [sign |-> chart[p].sign,
                              degrees |-> chart[p].degrees,
                              house |-> chart[p].house]],
             aspects |-> [k \in DOMAIN chart.aspects |->
                             [planet1 |-> chart.aspects[k].planet1,
                              planet2 |-> chart.aspects[k].planet2,
                              aspectName |-> chart.aspects[k].aspectName,
                              orb |-> chart.aspects[k].orb]]]]

\* Slip: > for >=.
AstrologyEngine_is_complete_strict(h, state) ==
    Len(h[state.revealedPlanets]) > Len(DEFAULT_REVEAL_ORDER)

AstrologyEngine_is_complete(h, state) ==
    Len(h[state.revealedPlanets]) >= Len(DEFAULT_REVEAL_ORDER)

(***************************************************************************)
(* TarotEngine.  The cards and the spreads are external data               *)
(* (cards.json, spreads.json): a sample deck of DeckSize cards and the two *)
(* spreads the tests name.  The shuffled deck and the reversal draws are   *)
(* the random inputs of start_reading.                                     *)
(***************************************************************************)
Cards == [k \in 1..DeckSize |-> [id |-> k, name |-> <<"card", k>>]]

SpreadPositions(n) ==
    [k \in 1..n |-> [index |-> k - 1, name |-> <<"position", k - 1>>]]

Spreads ==
    << [id |-> "single", name |-> "Single Card",
        positions |-> SpreadPositions(1), cardCount |-> 1],
       [id |-> "three_card", name |-> "Three Card",
        positions |-> SpreadPositions(3), cardCount |-> 3] >>

get_spread(spread_id) ==
    LET hits == {k \in DOMAIN Spreads : Spreads[k].id = spread_id}
    IN  IF hits = {} THEN None
        ELSE Spreads[CHOOSE k \in hits : \A j \in hits : k <= j]

\* The shuffled decks: the permutations of the deck.
ShuffledDecks ==
    {d \in [1..DeckSize -> Range(Cards)] :
        \A a, b \in 1..DeckSize : a # b => d[a] # d[b]}

\* shuffled[i], shuffled[j] = shuffled[j], shuffled[i] on Python indexes.
SwapAt(shuffled, i, j) ==
    [shuffled EXCEPT ![i + 1] = shuffled[j + 1], ![j + 1] = shuffled[i + 1]]

\* Slip: shuffled[i] = shuffled[j], an assignment in place of the swap.
RECURSIVE ShuffleFrom_overwriting(_, _, _)
ShuffleFrom_overwriting(shuffled, i, js) ==
    IF i < 1 THEN shuffled
    ELSE ShuffleFrom_overwriting(
             [shuffled EXCEPT ![i + 1] = shuffled[js[i] + 1]], i - 1, js)

\* The loop of shuffle_deck from Python index i down to 1; js[i] is
\* int(rand_float * (i + 1)), a value in 0..i.
RECURSIVE ShuffleFrom(_, _, _)
ShuffleFrom(shuffled, i, js) ==
    IF i < 1 THEN shuffled
    ELSE ShuffleFrom(SwapAt(shuffled, i, js[i]), i - 1, js)

\* The random choices of one shuffle of n cards.
ShuffleChoices(n) ==
    {js \in [1..(n - 1) -> 0..(n - 1)] : \A i \in 1..(n - 1) : js[i] <= i}

\* shuffle_deck: the list it returns and the caller's list after the call
\* (shuffled = list(cards) is a copy, so the loop leaves cards alone).
shuffle_deck(cards, js) ==
    [cards |-> cards, value |-> ShuffleFrom(cards, Len(cards) - 1, js)]

\* draw_cards: its two checks of count, then the cards from the top of the
\* deck; rand_float < 0.5 per drawn card is the boolean flips[i].
draw_cards(deck, count_, allow_reversals, flips) ==
    IF count_ > Len(deck)
    THEN Raises("ValueError",
                "Cannot draw " \o ToString(count_)
                    \o " cards from a deck of " \o ToString(Len(deck)))
    ELSE IF count_ < 0
    THEN Raises("ValueError", "Card count must be non-negative")
    ELSE Returns([i \in 1..count_ |->
                     [card |-> deck[i],
                      reversed |-> allow_reversals /\ flips[i],
                      positionIndex |-> i - 1]])

TarotEngine_start_reading(spread_id, question, allow_reversals, deck, flips) ==
    LET spread == get_spread(spread_id)
        drawn == draw_cards(deck, spread.cardCount, allow_reversals, flips)
    IN  IF spread = None \/ drawn.raised
        THEN [raised |-> TRUE, state |-> None]
        ELSE [raised |-> FALSE,
              state |-> [spread |-> spread,
                         question |-> question,
                         drawnCards |-> drawn.value,
                         revealedIndex |-> 0,
                         userFeedback |-> <<>>]]

TarotEngine_get_next_reveal(state) ==
    IF state.revealedIndex >= Len(state.drawnCards) THEN None
    ELSE [card |-> state.drawnCards[state.revealedIndex + 1],
          position |-> state.spread.positions[state.revealedIndex + 1]]

\* Slip: no guard, as in the other two engines.
TarotEngine_record_feedback_unguarded(state, feedback) ==
    [raised |-> FALSE,
     state |-> [spread |-> state.spread,
                question |-> state.question,
                drawnCards |-> state.drawnCards,
                revealedIndex |-> state.revealedIndex + 1,
                userFeedback |-> Append(state.userFeedback, feedback)]]

TarotEngine_record_feedback(state, feedback) ==
    IF state.revealedIndex >= Len(state.drawnCards)
    THEN [raised |-> TRUE, state |-> state]
    ELSE [raised |-> FALSE,
          state |-> [spread |-> state.spread,
                     question |-> state.question,
                     drawnCards |-> state.drawnCards,
                     revealedIndex |-> state.revealedIndex + 1,
                     userFeedback |-> Append(state.userFeedback, feedback)]]

TarotEngine_get_synthesis(state) ==
    IF state.revealedIndex < Len(state.drawnCards)
    THEN [raised |-> TRUE, value |-> "RuntimeError"]
    ELSE [raised |-> FALSE,
          value |-> [spread |-> state.spread.name,
                     question |-> state.question,
                     cards |-> [i \in DOMAIN state.drawnCards |->
                                  [position |-> state.spread.positions[i].name,
                                   card |-> state.drawnCards[i].card.name,
                                   reversed |-> state.drawnCards[i].reversed]],
                     feedback |-> [k \in DOMAIN state.userFeedback |->
                                     [element |-> state.userFeedback[k].element,
                                      userText |-> state.userFeedback[k].userText]]]]

\* Slip: > for >=.
TarotEngine_is_complete_strict(state) ==
    state.revealedIndex > Len(state.drawnCards)

TarotEngine_is_complete(state) ==
    state.revealedIndex >= Len(state.drawnCards)

(***************************************************************************)
(* IChingEngine.  A cast is six line values, bottom to top, each the sum   *)
(* of three coins (6..9).  The hexagram table is external data             *)
(* (hexagrams.json): BinaryToNumber is a sample numbering that agrees with *)
(* the two entries the tests pin (111111 is 1, 000000 is 2).               *)
(***************************************************************************)
LineValues == {6, 7, 8, 9}

_line_value_to_binary(value) == IF value \in {7, 9} THEN 1 ELSE 0

\* Slip: a changing line keeps its side.
_line_value_to_transformed_binary_unchanged(value) ==
    _line_value_to_binary(value)

_line_value_to_transformed_binary(value) ==
    IF value = 6 THEN 1
    ELSE IF value = 9 THEN 0
    ELSE _line_value_to_binary(value)

BinaryValue(binary) ==
    binary[1] * 32 + binary[2] * 16 + binary[3] * 8
        + binary[4] * 4 + binary[5] * 2 + binary[6]

BinaryToNumber(binary) ==
    LET v == BinaryValue(binary)
    IN  IF v = 63 THEN 1 ELSE IF v = 0 THEN 2 ELSE v + 2

\* The entries of hexagrams.json and trigrams.json, by number.
Hexagram(number) == [number |-> number, name |-> <<"hexagram", number>>]

Trigram(number) == [number |-> number, name |-> <<"trigram", number>>]

\* The lookup maps as the module is imported (all None) and as
\* _build_lookups leaves them: trigrams 1..8, hexagrams 1..64, and the 64
\* six-digit patterns.
ColdLookups == <<Nothing, Nothing, Nothing>>

BuiltTrigramByNumber == [number \in 1..8 |-> Trigram(number)]

BuiltHexagramByNumber == [number \in 1..64 |-> Hexagram(number)]

BuiltBinaryToNumber ==
    [binary \in [1..6 -> {0, 1}] |-> BinaryToNumber(binary)]

BuiltLookups ==
    << Some(BuiltTrigramByNumber), Some(BuiltHexagramByNumber),
       Some(BuiltBinaryToNumber) >>

\* A binary pattern, a tuple of digits in the model, as the string it is.
RECURSIVE BinaryString(_)
BinaryString(binary) ==
    IF binary = <<>> THEN ""
    ELSE ToString(Head(binary)) \o BinaryString(Tail(binary))

\* The message of the ValueError a lookup raises for a key its map lacks.
NotFoundMessage(function, key) ==
    IF function = "get_hexagram"
    THEN "Hexagram number " \o ToString(key)
             \o " not found (valid range: 1-64)"
    ELSE IF function = "get_trigram"
    THEN "Trigram number " \o ToString(key)
             \o " not found (valid range: 1-8)"
    ELSE "Unknown hexagram binary pattern: " \o BinaryString(key)

\* A lookup once its assertion has passed: map.get(key), and ValueError
\* when that is None.
LookupIn(function, map, key) ==
    IF key \in DOMAIN map THEN Returns(map[key])
    ELSE Raises("ValueError", NotFoundMessage(function, key))

\* get_hexagram and get_trigram with the maps built.
get_hexagram(number) ==
    LookupIn("get_hexagram", BuiltHexagramByNumber, number)

get_trigram(number) == LookupIn("get_trigram", BuiltTrigramByNumber, number)

binary_to_hexagram_number(binary) ==
    LookupIn("binary_to_hexagram_number", BuiltBinaryToNumber, binary)

LookupsAre(maps) ==
    /\ _trigram_by_number = maps[1]
    /\ _hexagram_by_number = maps[2]
    /\ _binary_to_number = maps[3]

\* _flip_coin: heads (TRUE) or tails (FALSE).
_flip_coin == BOOLEAN

\* _cast_line on the three coins it flipped: heads counts 3, tails 2.
_cast_line(flips) ==
    LET coin1 == IF flips[1] THEN 3 ELSE 2
        coin2 == IF flips[2] THEN 3 ELSE 2
        coin3 == IF flips[3] THEN 3 ELSE 2
        value == coin1 + coin2 + coin3
    IN  <<value, value = 6 \/ value = 9>>

\* cast_hexagram once its loop has cast the six lines: lines_cast is the
\* local list cast_lines of (value, changing) pairs, bottom to top.
cast_hexagram(lines_cast) ==
    LET idx == [k \in 1..Len(lines_cast) |-> k]
        lines == [k \in 1..Len(lines_cast) |-> lines_cast[k][1]]
        changing_lines == SelectSeq(idx, LAMBDA k : lines_cast[k][2])
        binary == [k \in 1..Len(lines_cast) |->
                      _line_value_to_binary(lines_cast[k][1])]
        transformed_binary ==
            [k \in 1..Len(lines_cast) |->
                _line_value_to_transformed_binary(lines_cast[k][1])]
    IN  [lines |-> lines,
         changingLines |-> changing_lines,
         hexagramNumber |-> binary_to_hexagram_number(binary).value,
         transformedHexagramNumber |->
             IF changing_lines # <<>>
             THEN Some(binary_to_hexagram_number(transformed_binary).value)
             ELSE Nothing,
         binary |-> binary,
         transformedBinary |->
             IF changing_lines # <<>> THEN Some(transformed_binary) ELSE Nothing]

\* The positions (1-based, ascending) of the changing lines.
ChangingLines(values) ==
    LET idx == [k \in 1..6 |-> k]
    IN  SelectSeq(idx, LAMBDA k : values[k] = 6 \/ values[k] = 9)

\* The cast whose six lines came out with the given values.
CastResultOf(values) ==
    cast_hexagram([k \in 1..6 |-> <<values[k], values[k] = 6 \/ values[k] = 9>>])

IChingEngine_start_reading(question, values) ==
    LET cast_result == CastResultOf(values)
    IN  [question |-> question,
         castResult |-> cast_result,
         hexagram |-> get_hexagram(cast_result.hexagramNumber).value,
         transformedHexagram |->
             IF cast_result.transformedHexagramNumber # Nothing
             THEN get_hexagram(
                      cast_result.transformedHexagramNumber[1]).value
             ELSE None,
         revealedLines |-> 0,
         userFeedback |-> <<>>]

\* sorted(): ascending, by insertion.
RECURSIVE SortedInts(_)
SortedInts(s) ==
    IF s = <<>> THEN <<>>
    ELSE LET rest == SortedInts(SubSeq(s, 1, Len(s) - 1))
             x == s[Len(s)]
             lower == SelectSeq(rest, LAMBDA y : y <= x)
             upper == SelectSeq(rest, LAMBDA y : y > x)
         IN  lower \o <<x>> \o upper

\* Slip: the changing lines from the top line down.
IChingEngine_get_next_reveal_descending(state) ==
    LET sorted_changing == SortedInts(state.castResult.changingLines)
        n == Len(sorted_changing)
    IN  IF state.revealedLines >= n THEN None
        ELSE [linePosition |-> sorted_changing[n - state.revealedLines]]

IChingEngine_get_next_reveal(state) ==
    LET sorted_changing == SortedInts(state.castResult.changingLines)
    IN  IF state.revealedLines >= Len(sorted_changing) THEN None
        ELSE [linePosition |-> sorted_changing[state.revealedLines + 1]]

IChingEngine_record_feedback(state, feedback) ==
    [raised |-> FALSE,
     state |-> [question |-> state.question,
                castResult |-> state.castResult,
                hexagram |-> state.hexagram,
                transformedHexagram |-> state.transformedHexagram,
                revealedLines |-> state.revealedLines + 1,
                userFeedback |-> Append(state.userFeedback, feedback)]]

IChingEngine_get_synthesis(state) ==
    [raised |-> FALSE,
     value |-> [hexagram |-> state.hexagram,
                transformedHexagram |-> state.transformedHexagram,
                changingLines |-> state.castResult.changingLines,
                question |-> state.question,
                feedback |-> [k \in DOMAIN state.userFeedback |->
                                [element |-> state.userFeedback[k].element,
                                 userText |-> state.userFeedback[k].userText]]]]

IChingEngine_is_complete(state) ==
    LET sorted_changing == SortedInts(state.castResult.changingLines)
    IN  state.revealedLines >= Len(sorted_changing)

(***************************************************************************)
(* The caller.  A behaviour follows one reading, of one system, from the   *)
(* state start_reading returned.                                           *)
(***************************************************************************)
Questions == {"What is the way forward?"}

SpreadIds == {"single", "three_card"}

Feedbacks == {FeedbackEntry("element", t) : t \in UserTexts}

\* Every planet id of the reveal order, the midheaven, and an unknown id.
AllPlanetIds == Range(DEFAULT_REVEAL_ORDER) \cup {"midheaven", "chiron"}

\* The ids the caller passes under Spec: the first two of the reveal order
\* and an unknown id.
PlanetIdInputs == {"sun", "moon", "chiron"}

Started == Ok("start_reading", 0, None)

InitAstrology ==
    \E birth_data \in BirthDataSamples :
        LET r == AstrologyEngine_start_reading(<<>>, birth_data)
        IN  /\ system = "astrology"
            /\ heap = r.heap
            /\ aStates = <<r.state>>
            /\ tState = None
            /\ iState = None

InitTarot ==
    \E spread_id \in SpreadIds, question \in Questions,
       allow_reversals \in BOOLEAN, deck \in ShuffledDecks :
        \E flips \in [1..get_spread(spread_id).cardCount -> BOOLEAN] :
            LET r == TarotEngine_start_reading(spread_id, question,
                                               allow_reversals, deck, flips)
            IN  /\ system = "tarot"
                /\ heap = <<>>
                /\ aStates = <<>>
                /\ tState = r.state
                /\ iState = None

InitIChing ==
    \E question \in Questions, values \in [1..6 -> LineValues] :
        /\ system = "iching"
        /\ heap = <<>>
        /\ aStates = <<>>
        /\ tState = None
        /\ iState = IChingEngine_start_reading(question, values)

\* start_reading of the astrology engine computed a chart, which loaded the
\* aspect definitions; the other engines never touch them.
InitReading ==
    /\ InitAstrology \/ InitTarot \/ InitIChing
    /\ _aspect_defs_cache = IF system = "astrology"
                            THEN Some(AspectDefinitions) ELSE Nothing
    /\ calls = <<>>
    /\ cast_lines = <<>>
    /\ LookupsAre(IF system = "iching" THEN BuiltLookups ELSE ColdLookups)

Init ==
    /\ InitReading
    /\ result = Started
    /\ pc = "free"
    /\ count = 0
    /\ log = <<>>
    /\ off = 0

Current == aStates[Len(aStates)]

(***************************************************************************)
(* Calls in any order: the caller may call record_feedback on any state    *)
(* value it holds, with any planet id.                                     *)
(***************************************************************************)
AstrologyRecordFeedback ==
    /\ system = "astrology"
    /\ pc = "free"
    /\ Len(aStates) < MaxSnaps
    /\ \E i \in DOMAIN aStates, planet_id \in PlanetIdInputs,
          feedback \in Feedbacks :
          LET r == AstrologyEngine_record_feedback(heap, aStates[i],
                                                   planet_id, feedback)
          IN  /\ heap' = r.heap
              /\ aStates' = IF r.raised THEN aStates
                            ELSE Append(aStates, r.state)
              /\ result' = Returned("record_feedback", i,
                                    [planet_id |-> planet_id,
                                     feedback |-> feedback],
                                    r.raised, None)
    /\ UNCHANGED <<_aspect_defs_cache, calls, cast_lines, lookups>>
    /\ UNCHANGED <<system, tState, iState, pc, count, log, off>>

AstrologyGetNextReveal ==
    /\ system = "astrology"
    /\ pc = "free"
    /\ \E i \in DOMAIN aStates :
          result' = Ok("get_next_reveal", i,
                       AstrologyEngine_get_next_reveal(heap, aStates[i]))
    /\ UNCHANGED <<_aspect_defs_cache, calls, cast_lines, lookups>>
    /\ UNCHANGED <<system, heap, aStates, tState, iState, pc, count, log, off>>

AstrologyIsComplete ==
    /\ system = "astrology"
    /\ pc = "free"
    /\ \E i \in DOMAIN aStates :
          result' = Ok("is_complete", i,
                       AstrologyEngine_is_complete(heap, aStates[i]))
    /\ UNCHANGED <<_aspect_defs_cache, calls, cast_lines, lookups>>
    /\ UNCHANGED <<system, heap, aStates, tState, iState, pc, count, log, off>>

AstrologyGetSynthesis ==
    /\ system = "astrology"
    /\ pc = "free"
    /\ \E i \in DOMAIN aStates :
          LET r == AstrologyEngine_get_synthesis(heap, aStates[i])
          IN  /\ heap' = r.heap
              /\ aStates' = [aStates EXCEPT ![i] = r.state]
              /\ result' = Returned("get_synthesis", i, None, r.raised,
                                    r.value)
    /\ UNCHANGED <<_aspect_defs_cache, calls, cast_lines, lookups>>
    /\ UNCHANGED <<system, tState, iState, pc, count, log, off>>

TarotRecordFeedback ==
    /\ system = "tarot"
    /\ pc = "free"
    /\ \E feedback \in Feedbacks :
          LET r == TarotEngine_record_feedback(tState, feedback)
          IN  /\ tState' = r.state
              /\ result' = Returned("record_feedback", 0, feedback,
                            r.raised, None)
    /\ UNCHANGED <<_aspect_defs_cache, calls, cast_lines, lookups>>
    /\ UNCHANGED <<system, heap, aStates, iState, pc, count, log, off>>

TarotGetNextReveal ==
    /\ system = "tarot"
    /\ pc = "free"
    /\ result' = Ok("get_next_reveal", 0, TarotEngine_get_next_reveal(tState))
    /\ UNCHANGED <<_aspect_defs_cache, calls, cast_lines, lookups>>
    /\ UNCHANGED <<system, heap, aStates, tState, iState, pc, count, log, off>>

TarotIsComplete ==
    /\ system = "tarot"
    /\ pc = "free"
    /\ result' = Ok("is_complete", 0, TarotEngine_is_complete(tState))
    /\ UNCHANGED <<_aspect_defs_cache, calls, cast_lines, lookups>>
    /\ UNCHANGED <<system, heap, aStates, tState, iState, pc, count, log, off>>

TarotGetSynthesis ==
    /\ system = "tarot"
    /\ pc = "free"
    /\ LET r == TarotEngine_get_synthesis(tState)
       IN  result' = Returned("get_synthesis", 0, None, r.raised, r.value)
    /\ UNCHANGED <<_aspect_defs_cache, calls, cast_lines, lookups>>
    /\ UNCHANGED <<system, heap, aStates, tState, iState, pc, count, log, off>>

IChingRecordFeedback ==
    /\ system = "iching"
    /\ pc = "free"
    /\ iState.revealedLines < MaxFeedback
    /\ \E feedback \in Feedbacks :
          LET r == IChingEngine_record_feedback(iState, feedback)
          IN  /\ iState' = r.state
              /\ result' = Returned("record_feedback", 0, feedback,
                            r.raised, None)
    /\ UNCHANGED <<_aspect_defs_cache, calls, cast_lines, lookups>>
    /\ UNCHANGED <<system, heap, aStates, tState, pc, count, log, off>>

IChingGetNextReveal ==
    /\ system = "iching"
    /\ pc = "free"
    /\ result' = Ok("get_next_reveal", 0, IChingEngine_get_next_reveal(iState))
    /\ UNCHANGED <<_aspect_defs_cache, calls, cast_lines, lookups>>
    /\ UNCHANGED <<system, heap, aStates, tState, iState, pc, count, log, off>>

IChingIsComplete ==
    /\ system = "iching"
    /\ pc = "free"
    /\ result' = Ok("is_complete", 0, IChingEngine_is_complete(iState))
    /\ UNCHANGED <<_aspect_defs_cache, calls, cast_lines, lookups>>
    /\ UNCHANGED <<system, heap, aStates, tState, iState, pc, count, log, off>>

IChingGetSynthesis ==
    /\ system = "iching"
    /\ pc = "free"
    /\ LET r == IChingEngine_get_synthesis(iState)
       IN  result' = Returned("get_synthesis", 0, None, r.raised, r.value)
    /\ UNCHANGED <<_aspect_defs_cache, calls, cast_lines, lookups>>
    /\ UNCHANGED <<system, heap, aStates, tState, iState, pc, count, log, off>>

Next ==
    \/ AstrologyRecordFeedback
    \/ AstrologyGetNextReveal
    \/ AstrologyIsComplete
    \/ AstrologyGetSynthesis
    \/ TarotRecordFeedback
    \/ TarotGetNextReveal
    \/ TarotIsComplete
    \/ TarotGetSynthesis
    \/ IChingRecordFeedback
    \/ IChingGetNextReveal
    \/ IChingIsComplete
    \/ IChingGetSynthesis

Spec == Init /\ [][Next]_vars

(***************************************************************************)
(* The reveal loop of the tests (test_engine_reveal_cycle):                *)
(*     while True:                                                         *)
(*         reveal = engine.get_next_reveal(state)                          *)
(*         if reveal is None: break                                        *)
(*         state = engine.record_feedback(state, <the revealed element>)   *)
(*         count += 1                                                      *)
(* and, once the loop has ended, up to MaxExtra further record_feedback    *)
(* calls on the final state.                                               *)
(***************************************************************************)
CardElements == << "card_0", "card_1", "card_2" >>

LineElements == << "line_1", "line_2", "line_3", "line_4", "line_5", "line_6" >>

InitCycle ==
    /\ InitReading
    /\ result = Started
    /\ pc = "reveal"
    /\ count = 0
    /\ log = <<>>
    /\ off = 0

AstrologyLoopReveal ==
    /\ system = "astrology"
    /\ pc = "reveal"
    /\ LET reveal == AstrologyEngine_get_next_reveal(heap, Current)
       IN  /\ result' = Ok("get_next_reveal", Len(aStates), reveal)
           /\ pc' = IF reveal = None THEN "done" ELSE "feedback"
    /\ UNCHANGED <<_aspect_defs_cache, calls, cast_lines, lookups>>
    /\ UNCHANGED <<system, heap, aStates, tState, iState, count, log, off>>

AstrologyLoopFeedback ==
    /\ system = "astrology"
    /\ pc = "feedback"
    /\ LET planet_id == result.value.planet
           feedback == FeedbackEntry(planet_id, "Understood")
           r == AstrologyEngine_record_feedback(heap, Current, planet_id,
                                                feedback)
       IN  /\ heap' = r.heap
           /\ aStates' = IF r.raised THEN aStates
                         ELSE Append(aStates, r.state)
           /\ result' = Returned("record_feedback", Len(aStates),
                                 [planet_id |-> planet_id,
                                  feedback |-> feedback],
                                 r.raised, None)
           /\ log' = Append(log, planet_id)
           /\ count' = IF r.raised THEN count ELSE count + 1
    /\ pc' = "reveal"
    /\ UNCHANGED <<_aspect_defs_cache, calls, cast_lines, lookups>>
    /\ UNCHANGED <<system, tState, iState, off>>

\* A record_feedback call the loop's protocol does not foresee: any planet
\* id, between two rounds of the loop or after it.
AstrologyOffProtocol ==
    /\ system = "astrology"
    /\ pc \in {"reveal", "done"}
    /\ off < MaxOff
    /\ \E planet_id \in AllPlanetIds :
          LET feedback == FeedbackEntry(planet_id, "Interesting")
              r == AstrologyEngine_record_feedback(heap, Current,
                                                   planet_id, feedback)
          IN  /\ heap' = r.heap
              /\ aStates' = IF r.raised THEN aStates
                            ELSE Append(aStates, r.state)
              /\ result' = Returned("record_feedback", Len(aStates),
                                    [planet_id |-> planet_id,
                                     feedback |-> feedback],
                                    r.raised, None)
    /\ off' = off + 1
    /\ UNCHANGED <<_aspect_defs_cache, calls, cast_lines, lookups>>
    /\ UNCHANGED <<system, tState, iState, pc, count, log>>

TarotLoopReveal ==
    /\ system = "tarot"
    /\ pc = "reveal"
    /\ LET reveal == TarotEngine_get_next_reveal(tState)
       IN  /\ result' = Ok("get_next_reveal", 0, reveal)
           /\ pc' = IF reveal = None THEN "done" ELSE "feedback"
    /\ UNCHANGED <<_aspect_defs_cache, calls, cast_lines, lookups>>
    /\ UNCHANGED <<system, heap, aStates, tState, iState, count, log, off>>

TarotLoopFeedback ==
    /\ system = "tarot"
    /\ pc = "feedback"
    /\ LET feedback == FeedbackEntry(CardElements[count + 1], "Interesting")
           r == TarotEngine_record_feedback(tState, feedback)
       IN  /\ tState' = r.state
           /\ result' = Returned("record_feedback", 0, feedback,
                         r.raised, None)
           /\ count' = IF r.raised THEN count ELSE count + 1
    /\ log' = Append(log, result.value)
    /\ pc' = "reveal"
    /\ UNCHANGED <<_aspect_defs_cache, calls, cast_lines, lookups>>
    /\ UNCHANGED <<system, heap, aStates, iState, off>>

TarotExtraFeedback ==
    /\ system = "tarot"
    /\ pc = "done"
    /\ off < MaxExtra
    /\ \E feedback \in Feedbacks :
          LET r == TarotEngine_record_feedback(tState, feedback)
          IN  /\ tState' = r.state
              /\ result' = Returned("record_feedback", 0, feedback,
                            r.raised, None)
    /\ off' = off + 1
    /\ UNCHANGED <<_aspect_defs_cache, calls, cast_lines, lookups>>
    /\ UNCHANGED <<system, heap, aStates, iState, pc, count, log>>

IChingLoopReveal ==
    /\ system = "iching"
    /\ pc = "reveal"
    /\ LET reveal == IChingEngine_get_next_reveal(iState)
       IN  /\ result' = Ok("get_next_reveal", 0, reveal)
           /\ pc' = IF reveal = None THEN "done" ELSE "feedback"
    /\ UNCHANGED <<_aspect_defs_cache, calls, cast_lines, lookups>>
    /\ UNCHANGED <<system, heap, aStates, tState, iState, count, log, off>>

IChingLoopFeedback ==
    /\ system = "iching"
    /\ pc = "feedback"
    /\ LET feedback == FeedbackEntry(LineElements[result.value.linePosition],
                                     "Noted")
           r == IChingEngine_record_feedback(iState, feedback)
       IN  /\ iState' = r.state
           /\ result' = Returned("record_feedback", 0, feedback,
                         r.raised, None)
    /\ log' = Append(log, result.value.linePosition)
    /\ count' = count + 1
    /\ pc' = "reveal"
    /\ UNCHANGED <<_aspect_defs_cache, calls, cast_lines, lookups>>
    /\ UNCHANGED <<system, heap, aStates, tState, off>>

IChingExtraFeedback ==
    /\ system = "iching"
    /\ pc = "done"
    /\ off < MaxExtra
    /\ \E feedback \in Feedbacks :
          LET r == IChingEngine_record_feedback(iState, feedback)
          IN  /\ iState' = r.state
              /\ result' = Returned("record_feedback", 0, feedback,
                            r.raised, None)
    /\ off' = off + 1
    /\ UNCHANGED <<_aspect_defs_cache, calls, cast_lines, lookups>>
    /\ UNCHANGED <<system, heap, aStates, tState, pc, count, log>>

NextCycle ==
    \/ AstrologyLoopReveal
    \/ AstrologyLoopFeedback
    \/ TarotLoopReveal
    \/ TarotLoopFeedback
    \/ TarotExtraFeedback
    \/ IChingLoopReveal
    \/ IChingLoopFeedback
    \/ IChingExtraFeedback

SpecCycle == InitCycle /\ [][NextCycle]_vars

\* The loops with off-protocol astrology calls interleaved.
NextProtocol == NextCycle \/ AstrologyOffProtocol

SpecProtocol == InitCycle /\ [][NextProtocol]_vars

(***************************************************************************)
(* Calls of the modules' functions outside any reading.  No reading is in  *)
(* progress: the reading variables stay empty.                             *)
(***************************************************************************)
NoCall == Ok("none", 0, None)

NoReading ==
    /\ system = "none"
    /\ heap = <<>>
    /\ aStates = <<>>
    /\ tState = None
    /\ iState = None
    /\ count = 0
    /\ log = <<>>
    /\ off = 0

(***************************************************************************)
(* cast_hexagram, line by line: six calls of _cast_line, three coins each, *)
(* then the CastResult.                                                    *)
(***************************************************************************)
InitCast ==
    /\ NoReading
    /\ result = NoCall
    /\ pc = "cast_line"
    /\ _aspect_defs_cache = Nothing
    /\ calls = <<>>
    /\ cast_lines = <<>>
    /\ LookupsAre(BuiltLookups)

CastLine ==
    /\ pc = "cast_line"
    /\ Len(cast_lines) < 6
    /\ \E flips \in [1..3 -> _flip_coin] :
          cast_lines' = Append(cast_lines, _cast_line(flips))
    /\ UNCHANGED <<system, heap, aStates, tState, iState, result, pc, count,
                   log, off, _aspect_defs_cache, calls, lookups>>

CastHexagramReturn ==
    /\ pc = "cast_line"
    /\ Len(cast_lines) = 6
    /\ result' = Ok("cast_hexagram", 0, cast_hexagram(cast_lines))
    /\ pc' = "done"
    /\ UNCHANGED <<system, heap, aStates, tState, iState, count, log, off,
                   _aspect_defs_cache, calls, cast_lines, lookups>>

NextCast == CastLine \/ CastHexagramReturn

SpecCast == InitCast /\ [][NextCast]_vars

(***************************************************************************)
(* to_julian_day on calendar dates from 1001 BCE to 2000 CE, on both sides *)
(* of October 1582.                                                        *)
(***************************************************************************)
DateYears == {-1000, 0, 333, 1000, 1582, 1583, 1990, 2000}

DateDays == {1, 4, 10, 15, 28}

DateHours == {0, 12}

InitJulian ==
    /\ NoReading
    /\ result = NoCall
    /\ pc = "free"
    /\ _aspect_defs_cache = Nothing
    /\ calls = <<>>
    /\ cast_lines = <<>>
    /\ LookupsAre(ColdLookups)

ToJulianDay ==
    /\ pc = "free"
    /\ pc' = "done"
    /\ \E year \in DateYears, month \in 1..12, day \in DateDays,
          hour \in DateHours :
          result' = Returned("to_julian_day", 0,
                             [year |-> year, month |-> month, day |-> day,
                              hour |-> hour, minute |-> 0],
                             FALSE, to_julian_day(year, month, day, hour, 0))
    /\ UNCHANGED <<system, heap, aStates, tState, iState, count, log, off,
                   _aspect_defs_cache, calls, cast_lines, lookups>>

NextJulian == ToJulianDay

SpecJulian == InitJulian /\ [][NextJulian]_vars

(***************************************************************************)
(* The astrology module's functions called in any order: each              *)
(* calculate_natal_chart call is kept in calls with the state of the       *)
(* aspect-definition cache it found; calculate_aspects and degrees_to_sign *)
(* are called in between.                                                  *)
(***************************************************************************)
MaxCharts == 2

MaxTurns == 2

ChartBirths ==
    {NewYork1990, Greenwich2000, MoonEndOfPisces, MoonEndOfSagittarius,
     June2000}

\* A PlanetPosition at a longitude of whole hundredths of a degree.
PositionAt(planet, total) ==
    _build_position(planet, total, _equal_house_cusps(0), FALSE)

\* Position lists handed to calculate_aspects: exact sextiles and a trine
\* (three equal orbs), a list with equal and unequal orbs, one planet, none.
AspectInputs ==
    { << PositionAt("sun", 0), PositionAt("moon", 60000),
         PositionAt("mars", 120000) >>,
      << PositionAt("sun", 10000), PositionAt("moon", 72500),
         PositionAt("mars", 100000), PositionAt("venus", 190000) >>,
      << PositionAt("sun", 359000), PositionAt("moon", 3500),
         PositionAt("mars", 181000) >>,
      << PositionAt("sun", 15000) >>,
      << >> }

\* Longitudes handed to degrees_to_sign: negative, zero, positive, on and
\* next to sign boundaries, and the negative float next to zero.
LongitudeInputs ==
    {Float(x) : x \in {-390000, -30000, -1, 0, 1, 29999, 30000, 45500,
                       359999, 360000, 360100, 725000}}
        \cup {NegTiny}

InitChart ==
    /\ NoReading
    /\ result = NoCall
    /\ pc = "free"
    /\ _aspect_defs_cache \in {Nothing, Some(AspectDefinitions)}
    /\ calls = <<>>
    /\ cast_lines = <<>>
    /\ LookupsAre(ColdLookups)

CalculateNatalChart ==
    /\ Len(calls) < MaxCharts
    /\ \E birth_data \in ChartBirths :
          LET chart == calculate_natal_chart(birth_data, _aspect_defs_cache)
          IN  /\ calls' = Append(calls,
                                 [birth_data |-> birth_data,
                                  cold |-> _aspect_defs_cache = Nothing,
                                  chart |-> chart.value])
              /\ result' = Returned("calculate_natal_chart", 0, birth_data,
                                    FALSE, chart.value)
              /\ _aspect_defs_cache' = chart.cache
    /\ UNCHANGED <<system, heap, aStates, tState, iState, pc, count, log, off,
                   cast_lines, lookups>>

CalculateAspects ==
    /\ \E positions \in AspectInputs :
          LET aspects == calculate_aspects(positions, _aspect_defs_cache)
          IN  /\ result' = Returned("calculate_aspects", 0, positions, FALSE,
                                    aspects.value)
              /\ _aspect_defs_cache' = aspects.cache
    /\ UNCHANGED <<system, heap, aStates, tState, iState, pc, count, log, off,
                   calls, cast_lines, lookups>>

DegreesToSign ==
    /\ \E total_degrees \in LongitudeInputs :
          LET call == degrees_to_sign_call(total_degrees)
          IN  result' = Returned("degrees_to_sign", 0, total_degrees,
                                 call.raised,
                                 IF call.raised THEN call.error
                                 ELSE call.value)
    /\ UNCHANGED <<system, heap, aStates, tState, iState, pc, count, log, off,
                   _aspect_defs_cache, calls, cast_lines, lookups>>

NextChart == CalculateNatalChart \/ CalculateAspects \/ DegreesToSign

SpecChart == InitChart /\ [][NextChart]_vars

(***************************************************************************)
(* calculate_natal_chart on births with optional fields left None: one     *)
(* call, on a cold or a warm cache.                                        *)
(***************************************************************************)
DefaultBirths == LondonVariants \cup {June2000, Midnight2000}

InitDefaults ==
    /\ NoReading
    /\ result = NoCall
    /\ pc = "free"
    /\ _aspect_defs_cache \in {Nothing, Some(AspectDefinitions)}
    /\ calls = <<>>
    /\ cast_lines = <<>>
    /\ LookupsAre(ColdLookups)

ChartWithDefaults ==
    /\ calls = <<>>
    /\ \E birth_data \in DefaultBirths :
          LET chart == calculate_natal_chart(birth_data, _aspect_defs_cache)
          IN  /\ calls' = <<[birth_data |-> birth_data,
                             cold |-> _aspect_defs_cache = Nothing,
                             chart |-> chart.value]>>
              /\ result' = Returned("calculate_natal_chart", 0, birth_data,
                                    FALSE, chart.value)
              /\ _aspect_defs_cache' = chart.cache
    /\ UNCHANGED <<system, heap, aStates, tState, iState, pc, count, log, off,
                   cast_lines, lookups>>

NextDefaults == ChartWithDefaults

SpecDefaults == InitDefaults /\ [][NextDefaults]_vars

(***************************************************************************)
(* heliocentric_longitude and geocentric_longitude called on any           *)
(* identifier, at the moments of the sample births.                        *)
(***************************************************************************)
OrbitIds ==
    {"sun", "moon", "ascendant", "chiron"}
        \cup {ORBITAL_ELEMENTS[k] : k \in DOMAIN ORBITAL_ELEMENTS}

OrbitMoments ==
    { LET b == BirthDefaults(birth_data)
      IN  to_julian_day(birth_data.year, birth_data.month, b.day,
                        b.hour - b.timezone, b.minute) :
        birth_data \in BirthDataSamples
            \cup {MoonEndOfPisces, MoonEndOfSagittarius, June2000,
                  Midnight2000} }

InitOrbit ==
    /\ NoReading
    /\ result = NoCall
    /\ pc = "free"
    /\ _aspect_defs_cache = Nothing
    /\ calls = <<>>
    /\ cast_lines = <<>>
    /\ LookupsAre(ColdLookups)

\* What the caller of one of the two functions sees.
OrbitCall(op, planet_id, jd, call) ==
    Returned(op, 0, [planet_id |-> planet_id, jd |-> jd], call.raised,
             IF call.raised THEN call.error ELSE call.value)

HeliocentricLongitude ==
    /\ pc = "free"
    /\ pc' = "done"
    /\ \E planet_id \in OrbitIds, jd \in OrbitMoments :
          result' = OrbitCall("heliocentric_longitude", planet_id, jd,
                              heliocentric_longitude(planet_id, jd))
    /\ UNCHANGED <<system, heap, aStates, tState, iState, count, log, off,
                   _aspect_defs_cache, calls, cast_lines, lookups>>

GeocentricLongitude ==
    /\ pc = "free"
    /\ pc' = "done"
    /\ \E planet_id \in OrbitIds, jd \in OrbitMoments :
          result' = OrbitCall("geocentric_longitude", planet_id, jd,
                              geocentric_longitude(planet_id, jd))
    /\ UNCHANGED <<system, heap, aStates, tState, iState, count, log, off,
                   _aspect_defs_cache, calls, cast_lines, lookups>>

NextOrbit == HeliocentricLongitude \/ GeocentricLongitude

SpecOrbit == InitOrbit /\ [][NextOrbit]_vars

(***************************************************************************)
(* shuffle_deck and draw_cards called on their own, and start_reading on   *)
(* the deck that shuffle_deck makes of the whole deck.                     *)
(***************************************************************************)
InitShuffle ==
    /\ NoReading
    /\ result = NoCall
    /\ pc = "free"
    /\ _aspect_defs_cache = Nothing
    /\ calls = <<>>
    /\ cast_lines = <<>>
    /\ LookupsAre(ColdLookups)

ShuffleDeck ==
    /\ pc = "free"
    /\ pc' = "shuffled"
    /\ \E n \in 0..DeckSize :
          \E js \in ShuffleChoices(n) :
              LET cards == SubSeq(Cards, 1, n)
              IN  result' = Returned("shuffle_deck", 0, cards, FALSE,
                                     shuffle_deck(cards, js))
    /\ UNCHANGED <<system, heap, aStates, tState, iState, count, log, off,
                   _aspect_defs_cache, calls, cast_lines, lookups>>

DrawCards ==
    /\ pc = "shuffled"
    /\ pc' = "done"
    /\ LET deck == result.value.value
       IN  \E count_ \in (-1)..(Len(deck) + 1), allow_reversals \in BOOLEAN :
               \E flips \in [1..(IF count_ <= Len(deck) THEN count_ ELSE 0)
                                -> BOOLEAN] :
                   LET call == draw_cards(deck, count_, allow_reversals,
                                          flips)
                   IN  result' = Returned("draw_cards", 0,
                                          [deck |-> deck, count |-> count_,
                                           allow_reversals |->
                                               allow_reversals],
                                          call.raised,
                                          IF call.raised THEN call.error
                                          ELSE call.value)
    /\ UNCHANGED <<system, heap, aStates, tState, iState, count, log, off,
                   _aspect_defs_cache, calls, cast_lines, lookups>>

TarotStartReading ==
    /\ pc = "free"
    /\ pc' = "done"
    /\ \E spread_id \in SpreadIds, question \in Questions,
          allow_reversals \in BOOLEAN, js \in ShuffleChoices(DeckSize) :
          \E flips \in [1..get_spread(spread_id).cardCount -> BOOLEAN] :
              LET deck == shuffle_deck(Cards, js).value
                  r == TarotEngine_start_reading(spread_id, question,
                                                 allow_reversals, deck, flips)
              IN  /\ tState' = r.state
                  /\ result' = Ok("start_reading", 0, None)
    /\ UNCHANGED <<system, heap, aStates, iState, count, log, off,
                   _aspect_defs_cache, calls, cast_lines, lookups>>

NextShuffle == ShuffleDeck \/ DrawCards \/ TarotStartReading

SpecShuffle == InitShuffle /\ [][NextShuffle]_vars

(***************************************************************************)
(* calculate_sun_sign on every month and day number.                       *)
(***************************************************************************)
InitSunSign ==
    /\ NoReading
    /\ result = NoCall
    /\ pc = "free"
    /\ _aspect_defs_cache = Nothing
    /\ calls = <<>>
    /\ cast_lines = <<>>
    /\ LookupsAre(ColdLookups)

CalculateSunSign ==
    /\ pc = "free"
    /\ pc' = "done"
    /\ \E month \in 1..12, day \in 1..31 :
          result' = Returned("calculate_sun_sign", 0,
                             [month |-> month, day |-> day], FALSE,
                             calculate_sun_sign_call(month, day))
    /\ UNCHANGED <<system, heap, aStates, tState, iState, count, log, off,
                   _aspect_defs_cache, calls, cast_lines, lookups>>

NextSunSign == CalculateSunSign

SpecSunSign == InitSunSign /\ [][NextSunSign]_vars

(***************************************************************************)
(* _house_for_longitude on the equal-house cusps of an ascendant: both on  *)
(* a grid of 7.5 degrees and on the thousandths next to 0, 30 and 360.     *)
(***************************************************************************)
GridStep == 7500

DegreeGrid ==
    {k * GridStep : k \in 0..((FullCircle \div GridStep) - 1)}
        \cup {1, SignWidth - 1, SignWidth + 1, FullCircle - 1}

InitHouse ==
    /\ NoReading
    /\ result = NoCall
    /\ pc = "free"
    /\ _aspect_defs_cache = Nothing
    /\ calls = <<>>
    /\ cast_lines = <<>>
    /\ LookupsAre(ColdLookups)

HouseForLongitude ==
    /\ pc = "free"
    /\ pc' = "done"
    /\ \E asc_deg \in DegreeGrid, longitude \in DegreeGrid :
          LET cusps == _equal_house_cusps(asc_deg)
          IN  result' = Returned("_house_for_longitude", 0,
                                 [asc_deg |-> asc_deg,
                                  longitude |-> longitude, cusps |-> cusps],
                                 FALSE, _house_for_longitude(longitude, cusps))
    /\ UNCHANGED <<system, heap, aStates, tState, iState, count, log, off,
                   _aspect_defs_cache, calls, cast_lines, lookups>>

NextHouse == HouseForLongitude

SpecHouse == InitHouse /\ [][NextHouse]_vars

(***************************************************************************)
(* calculate_aspects on lists of three positions, with the definition      *)
(* table not yet loaded, loaded, or loaded from a file whose orb windows    *)
(* overlap.                                                                *)
(***************************************************************************)
AspectLongitudes ==
    {0, 5000, 8010, 16010, 60000, 75000, 98000, 98010, 170000, 185000,
     270000, 355000, 359990}

InitAspects ==
    /\ NoReading
    /\ result = NoCall
    /\ pc = "free"
    /\ _aspect_defs_cache \in {Nothing, Some(AspectDefinitions),
                               Some(OverlappingDefinitions)}
    /\ calls = <<>>
    /\ cast_lines = <<>>
    /\ LookupsAre(ColdLookups)

CalculateAspectsOfThree ==
    /\ pc = "free"
    /\ pc' = "done"
    /\ \E a, b, c \in AspectLongitudes :
          LET positions == << PositionAt("sun", a), PositionAt("moon", b),
                              PositionAt("mars", c) >>
              aspects == calculate_aspects(positions, _aspect_defs_cache)
          IN  /\ result' = Returned("calculate_aspects", 0, positions, FALSE,
                                    aspects.value)
              /\ _aspect_defs_cache' = aspects.cache
    /\ UNCHANGED <<system, heap, aStates, tState, iState, count, log, off,
                   calls, cast_lines, lookups>>

NextAspects == CalculateAspectsOfThree

SpecAspects == InitAspects /\ [][NextAspects]_vars

(***************************************************************************)
(* The retrograde flag of each planet in the charts of the sample births   *)
(* and of births at which a planet passes 0 degrees of Aries.              *)
(***************************************************************************)
\* The ten planet positions of a chart, in the order of Planets.
ChartPositions(chart) ==
    << chart.sun, chart.moon, chart.mercury, chart.venus, chart.mars,
       chart.jupiter, chart.saturn, chart.uranus, chart.neptune, chart.pluto >>

RetrogradeBirths ==
    BirthDataSamples
        \cup {MoonEndOfPisces, MoonEndOfSagittarius, June2000, Midnight2000,
              MercuryBackAcrossAries, MercuryForwardAcrossAries,
              JupiterBackAcrossAries, MarsForwardAcrossAries}

InitRetrograde ==
    /\ NoReading
    /\ result = NoCall
    /\ pc = "free"
    /\ _aspect_defs_cache = Nothing
    /\ calls = <<>>
    /\ cast_lines = <<>>
    /\ LookupsAre(ColdLookups)

\* One chart computation, and the position of one planet read from it.
ChartRetrograde ==
    /\ pc = "free"
    /\ pc' = "done"
    /\ \E birth_data \in RetrogradeBirths, k \in DOMAIN Planets :
          \E chart \in {calculate_natal_chart(birth_data,
                                              _aspect_defs_cache)} :
              /\ result' = Returned("calculate_natal_chart", 0,
                                    [birth_data |-> birth_data,
                                     planet |-> Planets[k]],
                                    FALSE, ChartPositions(chart.value)[k])
              /\ _aspect_defs_cache' = chart.cache
    /\ UNCHANGED <<system, heap, aStates, tState, iState, count, log, off,
                   calls, cast_lines, lookups>>

NextRetrograde == ChartRetrograde

SpecRetrograde == InitRetrograde /\ [][NextRetrograde]_vars

(***************************************************************************)
(* solve_kepler, iteration by iteration.  The call's input is M, held by   *)
(* what the arithmetic asks of it (zero, another finite number, an         *)
(* infinity, or nan), and e in thousandths.  One pass computes             *)
(*     dE = (E - e * sin(E) - M) / (1 - e * cos(E))                        *)
(* math.sin raises ValueError on an infinite E; the division raises        *)
(* ZeroDivisionError when the divisor is zero, whatever the dividend.      *)
(* cos(E) is 1 for E = 0 and otherwise any value of [-1, 1], taken here in *)
(* thousandths, so the divisor is 1000000 - e * cos(E) in millionths.      *)
(* In the first pass E = M, so the dividend is zero when M = 0 or e = 0    *)
(* and the step is then zero; with a nan every comparison is false.  In    *)
(* every other case the step is held by what the loop asks of it: whether  *)
(* abs(dE) is below the tolerance 1e-12, and both answers are followed.    *)
(* count is the number of passes made, log the answers so far.             *)
(***************************************************************************)
MaxIterations == 50

KeplerAnomalies == {"zero", "finite", "inf", "nan"}

KeplerEccentricities == {0, 200, 999, 1000}

StepOutcomes(M, e, first) ==
    IF M = "inf" THEN {"ValueError"}
    ELSE IF M = "nan" THEN {"above"}
    ELSE UNION {IF 1000000 - e * cos_E = 0 THEN {"ZeroDivisionError"}
                ELSE IF first /\ (M = "zero" \/ e = 0) THEN {"below"}
                ELSE {"above", "below"} :
                    cos_E \in IF M = "zero" THEN {1000}
                              ELSE {-1000, 500, 1000}}

\* The message of the exception each failing pass raises.
KeplerError(type) ==
    [type |-> type,
     message |-> IF type = "ZeroDivisionError" THEN "float division by zero"
                 ELSE "math domain error"]

InitKepler ==
    /\ NoReading
    /\ \E M \in KeplerAnomalies, e \in KeplerEccentricities :
          result = Returned("call", 0, [M |-> M, e |-> e], FALSE, None)
    /\ pc = "for"
    /\ _aspect_defs_cache = Nothing
    /\ calls = <<>>
    /\ cast_lines = <<>>
    /\ LookupsAre(ColdLookups)

\* Slip: the loop has no break.
KeplerIterate_no_break ==
    /\ pc = "for"
    /\ count < MaxIterations
    /\ \E step \in StepOutcomes(result.input.M, result.input.e, count = 0) :
          /\ count' = count + 1
          /\ log' = Append(log, step)
          /\ IF step \in {"above", "below"}
             THEN pc' = "for" /\ UNCHANGED result
             ELSE /\ pc' = "done"
                  /\ result' = Returned("solve_kepler", 0, result.input, TRUE,
                                        KeplerError(step))
    /\ UNCHANGED <<system, heap, aStates, tState, iState, off,
                   _aspect_defs_cache, calls, cast_lines, lookups>>

\* One pass of the loop body: dE, E -= dE, and the test of abs(dE).
KeplerIterate ==
    /\ pc = "for"
    /\ count < MaxIterations
    /\ \E step \in StepOutcomes(result.input.M, result.input.e, count = 0) :
          /\ count' = count + 1
          /\ log' = Append(log, step)
          /\ IF step = "above" THEN pc' = "for" /\ UNCHANGED result
             ELSE IF step = "below" THEN pc' = "return" /\ UNCHANGED result
             ELSE /\ pc' = "done"
                  /\ result' = Returned("solve_kepler", 0, result.input, TRUE,
                                        KeplerError(step))
    /\ UNCHANGED <<system, heap, aStates, tState, iState, off,
                   _aspect_defs_cache, calls, cast_lines, lookups>>

\* range(50) is used up.
KeplerExhausted ==
    /\ pc = "for"
    /\ count = MaxIterations
    /\ pc' = "return"
    /\ UNCHANGED <<system, heap, aStates, tState, iState, result, count, log,
                   off, _aspect_defs_cache, calls, cast_lines, lookups>>

KeplerReturn ==
    /\ pc = "return"
    /\ pc' = "done"
    /\ result' = Returned("solve_kepler", 0, result.input, FALSE,
                          [iterations |-> count])
    /\ UNCHANGED <<system, heap, aStates, tState, iState, count, log, off,
                   _aspect_defs_cache, calls, cast_lines, lookups>>

NextKepler == KeplerIterate \/ KeplerExhausted \/ KeplerReturn

SpecKepler == InitKepler /\ [][NextKepler]_vars

(***************************************************************************)
(* The longitude evaluations of one calculate_natal_chart call, in the     *)
(* order of the code, and the solve_kepler calls each of them makes.       *)
(* count is the number of evaluations made, log the solve_kepler calls.    *)
(***************************************************************************)
GeocentricPlanets == SubSeq(Planets, 3, Len(Planets))

\* sun_longitude and moon_longitude, geocentric_longitude for each planet
\* at jd, then _is_retrograde for each planet: geocentric_longitude at
\* jd - 1 and at jd + 1.
ChartEvaluations ==
    << [function |-> "sun_longitude", planet |-> "sun", day |-> 0],
       [function |-> "moon_longitude", planet |-> "moon", day |-> 0] >>
    \o [k \in DOMAIN GeocentricPlanets |->
           [function |-> "geocentric_longitude",
            planet |-> GeocentricPlanets[k], day |-> 0]]
    \o [k \in 1..(2 * Len(GeocentricPlanets)) |->
           [function |-> "geocentric_longitude",
            planet |-> GeocentricPlanets[(k + 1) \div 2],
            day |-> IF k % 2 = 1 THEN -1 ELSE 1]]

\* The solve_kepler calls of one evaluation: geocentric_longitude solves
\* for the Earth and then for the planet; the Sun and Moon series make
\* none.
KeplerCallsOf(evaluation) ==
    IF evaluation.function = "geocentric_longitude"
    THEN << [body |-> "earth", planet |-> evaluation.planet,
             day |-> evaluation.day],
            [body |-> evaluation.planet, planet |-> evaluation.planet,
             day |-> evaluation.day] >>
    ELSE << >>

InitKeplerCalls ==
    /\ NoReading
    /\ \E birth_data \in RetrogradeBirths :
          result = Returned("call", 0, birth_data, FALSE, None)
    /\ pc = "evaluate"
    /\ _aspect_defs_cache = Nothing
    /\ calls = <<>>
    /\ cast_lines = <<>>
    /\ LookupsAre(ColdLookups)

ChartEvaluate ==
    /\ pc = "evaluate"
    /\ count < Len(ChartEvaluations)
    /\ count' = count + 1
    /\ log' = log \o KeplerCallsOf(ChartEvaluations[count + 1])
    /\ UNCHANGED <<system, heap, aStates, tState, iState, result, pc, off,
                   _aspect_defs_cache, calls, cast_lines, lookups>>

ChartReturn ==
    /\ pc = "evaluate"
    /\ count = Len(ChartEvaluations)
    /\ pc' = "done"
    /\ \E chart \in {calculate_natal_chart(result.input,
                                           _aspect_defs_cache)} :
          /\ result' = Returned("calculate_natal_chart", 0, result.input,
                                FALSE, chart.value)
          /\ _aspect_defs_cache' = chart.cache
    /\ UNCHANGED <<system, heap, aStates, tState, iState, count, log, off,
                   calls, cast_lines, lookups>>

NextKeplerCalls == ChartEvaluate \/ ChartReturn

SpecKeplerCalls == InitKeplerCalls /\ [][NextKeplerCalls]_vars


(***************************************************************************)
(* Sequential aspect calculations in one process.  The module is imported  *)
(* with _aspect_defs_cache = None; calculate_aspects is then reached       *)
(* directly, through calculate_natal_chart, and through                    *)
(* AstrologyEngine.start_reading.  calls keeps, for every call, whether    *)
(* aspects.json was read and the table the call worked with.               *)
(***************************************************************************)
MaxAspectCalls == 4

InitCache ==
    /\ NoReading
    /\ result = NoCall
    /\ pc = "free"
    /\ _aspect_defs_cache = Nothing
    /\ calls = <<>>
    /\ cast_lines = <<>>
    /\ LookupsAre(ColdLookups)

CacheCalculateAspects ==
    /\ Len(calls) < MaxAspectCalls
    /\ \E positions \in AspectInputs :
       \E aspects \in {calculate_aspects(positions, _aspect_defs_cache)} :
          /\ calls' = Append(calls, [op |-> "calculate_aspects",
                                     read |-> aspects.read,
                                     definitions |-> aspects.definitions])
          /\ result' = Returned("calculate_aspects", 0, positions, FALSE,
                                aspects.value)
          /\ _aspect_defs_cache' = aspects.cache
    /\ UNCHANGED <<system, heap, aStates, tState, iState, pc, count, log, off,
                   cast_lines, lookups>>

CacheCalculateNatalChart ==
    /\ Len(calls) < MaxAspectCalls
    /\ \E birth_data \in {June2000, Midnight2000} :
       \E chart \in {calculate_natal_chart(birth_data, _aspect_defs_cache)} :
          /\ calls' = Append(calls, [op |-> "calculate_natal_chart",
                                     read |-> chart.read,
                                     definitions |-> chart.definitions])
          /\ result' = Returned("calculate_natal_chart", 0, birth_data, FALSE,
                                chart.value)
          /\ _aspect_defs_cache' = chart.cache
    /\ UNCHANGED <<system, heap, aStates, tState, iState, pc, count, log, off,
                   cast_lines, lookups>>

CacheStartReading ==
    /\ Len(calls) < MaxAspectCalls
    /\ \E birth_data \in {June2000, MoonEndOfPisces} :
       \E chart \in {calculate_natal_chart(birth_data, _aspect_defs_cache)} :
          /\ calls' = Append(calls, [op |-> "start_reading",
                                     read |-> chart.read,
                                     definitions |-> chart.definitions])
          /\ result' = Returned("start_reading", 0, birth_data, FALSE,
                                chart.value)
          /\ _aspect_defs_cache' = chart.cache
    /\ UNCHANGED <<system, heap, aStates, tState, iState, pc, count, log, off,
                   cast_lines, lookups>>

NextCache ==
    CacheCalculateAspects \/ CacheCalculateNatalChart \/ CacheStartReading

SpecCache == InitCache /\ [][NextCache]_vars

(***************************************************************************)
(* Threads calling the I Ching lookups on a cold cache.  The interpreter   *)
(* may switch threads between any two statements, so every statement of    *)
(* _build_lookups is a step.  pc[t] is thread t's position ("85".."91":    *)
(* that line of _build_lookups; "returned": _build_lookups has returned to *)
(* the function that called it), calls[t] the call it makes, with the      *)
(* number of binary_to_hexagram_number calls cast_hexagram has started,    *)
(* and result[t] what the call returned or raised.                         *)
(***************************************************************************)
NumThreads == 2

Threads == 1..NumThreads

LookupCalls ==
    { [op |-> "get_hexagram", arg |-> 1],
      [op |-> "get_hexagram", arg |-> 65],
      [op |-> "get_trigram", arg |-> 8],
      [op |-> "binary_to_hexagram_number", arg |-> <<1, 1, 1, 1, 1, 1>>],
      [op |-> "cast_hexagram", arg |-> <<7, 8, 7, 8, 7, 8>>],
      [op |-> "cast_hexagram", arg |-> <<9, 8, 7, 8, 7, 6>>] }

\* The function of thread t that _build_lookups returns to.
RunningFunction(t) ==
    IF calls[t].op = "cast_hexagram" /\ calls[t].inner > 0
    THEN "binary_to_hexagram_number"
    ELSE calls[t].op

\* The global the running function asserts on and then reads.
MapOf(function) ==
    IF function = "get_trigram" THEN _trigram_by_number
    ELSE IF function = "get_hexagram" THEN _hexagram_by_number
    ELSE _binary_to_number

\* The key the running function looks up.
KeyOf(t) ==
    IF calls[t].op # "cast_hexagram" THEN calls[t].arg
    ELSE IF calls[t].inner = 1
         THEN [k \in 1..6 |-> _line_value_to_binary(calls[t].arg[k])]
         ELSE [k \in 1..6 |->
                  _line_value_to_transformed_binary(calls[t].arg[k])]

InitLookups ==
    /\ NoReading
    /\ result = [t \in Threads |-> NoCall]
    /\ pc = [t \in Threads |-> "idle"]
    /\ _aspect_defs_cache = Nothing
    /\ calls = [t \in Threads |-> [op |-> "none", arg |-> 0, inner |-> 0]]
    /\ cast_lines = <<>>
    /\ LookupsAre(ColdLookups)

\* A thread calls one of the lookups, which calls _build_lookups.
LookupCall ==
    \E t \in Threads : \E call \in LookupCalls :
        /\ pc[t] = "idle"
        /\ calls' = [calls EXCEPT ![t] = [op |-> call.op, arg |-> call.arg,
                                          inner |-> 0]]
        /\ pc' = [pc EXCEPT ![t] = "85"]
        /\ UNCHANGED <<system, heap, aStates, tState, iState, result, count,
                       log, off, _aspect_defs_cache, cast_lines, lookups>>

\* if _trigram_by_number is not None: return; else load the two lists.
BuildLookupsTest ==
    \E t \in Threads :
        /\ pc[t] = "85"
        /\ pc' = [pc EXCEPT ![t] = IF _trigram_by_number # Nothing
                                   THEN "returned" ELSE "89"]
        /\ UNCHANGED <<system, heap, aStates, tState, iState, result, count,
                       log, off, _aspect_defs_cache, calls, cast_lines,
                       lookups>>

BuildTrigramByNumber ==
    \E t \in Threads :
        /\ pc[t] = "89"
        /\ _trigram_by_number' = Some(BuiltTrigramByNumber)
        /\ pc' = [pc EXCEPT ![t] = "90"]
        /\ UNCHANGED <<system, heap, aStates, tState, iState, result, count,
                       log, off, _aspect_defs_cache, calls, cast_lines,
                       _hexagram_by_number, _binary_to_number>>

BuildHexagramByNumber ==
    \E t \in Threads :
        /\ pc[t] = "90"
        /\ _hexagram_by_number' = Some(BuiltHexagramByNumber)
        /\ pc' = [pc EXCEPT ![t] = "91"]
        /\ UNCHANGED <<system, heap, aStates, tState, iState, result, count,
                       log, off, _aspect_defs_cache, calls, cast_lines,
                       _trigram_by_number, _binary_to_number>>

BuildBinaryToNumber ==
    \E t \in Threads :
        /\ pc[t] = "91"
        /\ _binary_to_number' = Some(BuiltBinaryToNumber)
        /\ pc' = [pc EXCEPT ![t] = "returned"]
        /\ UNCHANGED <<system, heap, aStates, tState, iState, result, count,
                       log, off, _aspect_defs_cache, calls, cast_lines,
                       _trigram_by_number, _hexagram_by_number>>

\* cast_hexagram after its own _build_lookups call, and after a lookup of
\* the primary pattern when lines are changing: it casts (the lines are in
\* calls[t].arg) and calls binary_to_hexagram_number.
CastHexagramLookup ==
    \E t \in Threads :
        /\ pc[t] = "returned"
        /\ calls[t].op = "cast_hexagram"
        /\ \/ calls[t].inner = 0
           \/ /\ calls[t].inner = 1
              /\ _binary_to_number # Nothing
              /\ ChangingLines(calls[t].arg) # <<>>
        /\ calls' = [calls EXCEPT ![t].inner = @ + 1]
        /\ pc' = [pc EXCEPT ![t] = "85"]
        /\ UNCHANGED <<system, heap, aStates, tState, iState, result, count,
                       log, off, _aspect_defs_cache, cast_lines, lookups>>

\* assert <map> is not None, on a map that is still None.
LookupAssertFails ==
    \E t \in Threads :
        /\ pc[t] = "returned"
        /\ ~ (calls[t].op = "cast_hexagram" /\ calls[t].inner = 0)
        /\ MapOf(RunningFunction(t)) = Nothing
        /\ result' = [result EXCEPT ![t] =
                         Returned(calls[t].op, 0, calls[t].arg, TRUE,
                                  Raises("AssertionError", "").error)]
        /\ pc' = [pc EXCEPT ![t] = "done"]
        /\ UNCHANGED <<system, heap, aStates, tState, iState, count, log, off,
                       _aspect_defs_cache, calls, cast_lines, lookups>>

\* The assertion passes and the call ends: the entry found, ValueError for
\* a key the map does not have, or the CastResult of cast_hexagram.
LookupReturn ==
    \E t \in Threads :
        /\ pc[t] = "returned"
        /\ ~ (calls[t].op = "cast_hexagram" /\ calls[t].inner = 0)
        /\ MapOf(RunningFunction(t)) # Nothing
        /\ ~ (/\ calls[t].op = "cast_hexagram"
              /\ calls[t].inner = 1
              /\ ChangingLines(calls[t].arg) # <<>>)
        /\ LET found == LookupIn(RunningFunction(t),
                                 MapOf(RunningFunction(t))[1], KeyOf(t))
           IN  result' = [result EXCEPT ![t] =
                   IF found.raised
                   THEN Returned(calls[t].op, 0, calls[t].arg, TRUE,
                                 found.error)
                   ELSE IF calls[t].op = "cast_hexagram"
                   THEN Returned(calls[t].op, 0, calls[t].arg, FALSE,
                                 CastResultOf(calls[t].arg))
                   ELSE Returned(calls[t].op, 0, calls[t].arg, FALSE,
                                 found.value)]
        /\ pc' = [pc EXCEPT ![t] = "done"]
        /\ UNCHANGED <<system, heap, aStates, tState, iState, count, log, off,
                       _aspect_defs_cache, calls, cast_lines, lookups>>

NextLookups ==
    \/ LookupCall
    \/ BuildLookupsTest
    \/ BuildTrigramByNumber
    \/ BuildHexagramByNumber
    \/ BuildBinaryToNumber
    \/ CastHexagramLookup
    \/ LookupAssertFails
    \/ LookupReturn

SpecLookups == InitLookups /\ [][NextLookups]_vars
(***************************************************************************)
(* Properties.                                                             *)
(***************************************************************************)
IsPrefix(s, t) == Len(s) <= Len(t) /\ SubSeq(t, 1, Len(s)) = s

NoDuplicates(s) == \A a, b \in DOMAIN s : a # b => s[a] # s[b]

RevealedPlanets(i) == heap[aStates[i].revealedPlanets]

RevealedHouses(i) == heap[aStates[i].revealedHouses]

UserFeedback(i) == heap[aStates[i].userFeedback]

Chart(i) == heap[aStates[i].chart]

\* C1: in the astrology reveal loop (start_reading, then get_next_reveal and
\* record_feedback with the returned planet id, repeated), the state after
\* count record_feedback steps is complete exactly when count is 11,
\* get_next_reveal returns None on it exactly when count is 11, the loop
\* ends only there, and the ids handed out are the reveal order's.
C1_RevealCycleElevenSteps ==
    system = "astrology" =>
        /\ count <= 11
        /\ Len(aStates) = count + 1
        /\ AstrologyEngine_is_complete(heap, Current) <=> (count = 11)
        /\ (AstrologyEngine_get_next_reveal(heap, Current) = None)
               <=> (count = 11)
        /\ (pc = "done") => (count = 11 /\ result.value = None)
        /\ log = SubSeq(DEFAULT_REVEAL_ORDER, 1, count)

C1_Witness ==
    /\ system = "astrology"
    /\ pc = "done"
    /\ count = 11
    /\ result.op = "get_next_reveal"
    /\ AstrologyEngine_is_complete(heap, Current)
    /\ ~AstrologyEngine_is_complete(heap, aStates[Len(aStates) - 1])

\* C2: on every astrology state, get_next_reveal returns the first id of
\* DEFAULT_REVEAL_ORDER that is not in revealedPlanets, with that id's
\* position in the chart (the ascendant as a position with house 1), and it
\* returns None exactly when all 11 ids are in revealedPlanets.  (Stated of
\* the newest state value: every state value held was the newest once.)
C2_NextRevealIsFirstUnrevealed ==
    system = "astrology" =>
        \A i \in {Len(aStates)} :
            LET reveal == AstrologyEngine_get_next_reveal(heap, aStates[i])
                revealed == Range(RevealedPlanets(i))
                chart == Chart(i)
            IN  /\ (reveal = None)
                       <=> (Range(DEFAULT_REVEAL_ORDER) \subseteq revealed)
                /\ reveal # None =>
                     \E k \in DOMAIN DEFAULT_REVEAL_ORDER :
                        /\ reveal.planet = DEFAULT_REVEAL_ORDER[k]
                        /\ reveal.planet \notin revealed
                        /\ \A j \in 1..(k - 1) :
                              DEFAULT_REVEAL_ORDER[j] \in revealed
                        /\ reveal.position.planet = reveal.planet
                        /\ IF reveal.planet = "ascendant"
                           THEN /\ reveal.position.house = 1
                                /\ reveal.position.sign = chart.ascendant.sign
                                /\ reveal.position.degrees
                                       = chart.ascendant.degrees
                                /\ reveal.position.totalDegrees
                                       = chart.ascendant.totalDegrees
                                /\ ~reveal.position.retrograde
                           ELSE reveal.position = chart[reveal.planet]

\* An id was revealed ahead of its turn, get_next_reveal skipped it, and the
\* loop ran to its end.
C2_Witness ==
    /\ system = "astrology"
    /\ pc = "done"
    /\ off = 1
    /\ result.op = "get_next_reveal"
    /\ result.value = None
    /\ Len(RevealedPlanets(Len(aStates))) = 11
    /\ \E i \in DOMAIN aStates :
          /\ "venus" \in Range(RevealedPlanets(i))
          /\ AstrologyEngine_get_next_reveal(heap, aStates[i]) # None
          /\ AstrologyEngine_get_next_reveal(heap, aStates[i]).planet = "mercury"

\* C3: revealedPlanets is append-only (every state value but the first
\* extends the list of an earlier one) and holds no planet id twice.
C3_AppendOnlyNoDuplicates ==
    system = "astrology" =>
        \A i \in DOMAIN aStates :
            /\ NoDuplicates(RevealedPlanets(i))
            /\ i > 1 => \E j \in 1..(i - 1) :
                           IsPrefix(RevealedPlanets(j), RevealedPlanets(i))

\* C4: record_feedback(state, id, fb) returns a new state whose
\* revealedPlanets and userFeedback are the old lists with id and fb
\* appended at the end, whose birthData, chart and revealedHouses equal the
\* old ones; the input state and every other state value held, and their
\* lists, stay as they were.
C4_RecordFeedbackFrame ==
    [][(system = "astrology" /\ result'.op = "record_feedback")
        => LET old == aStates[result'.arg]
               new == aStates'[Len(aStates')]
           IN  /\ Len(aStates') = Len(aStates) + 1
               /\ ~result'.raised
               /\ heap'[new.revealedPlanets]
                     = Append(heap[old.revealedPlanets], result'.input.planet_id)
               /\ heap'[new.userFeedback]
                     = Append(heap[old.userFeedback], result'.input.feedback)
               /\ heap'[new.revealedHouses] = heap[old.revealedHouses]
               /\ new.birthData = old.birthData
               /\ new.chart = old.chart
               /\ heap'[new.chart] = heap[old.chart]
               /\ \A k \in DOMAIN aStates :
                     /\ aStates'[k] = aStates[k]
                     /\ heap'[aStates[k].chart] = heap[aStates[k].chart]
                     /\ heap'[aStates[k].revealedPlanets]
                           = heap[aStates[k].revealedPlanets]
                     /\ heap'[aStates[k].revealedHouses]
                           = heap[aStates[k].revealedHouses]
                     /\ heap'[aStates[k].userFeedback]
                           = heap[aStates[k].userFeedback]]_vars

\* Two continuations of the first state, with different ids and feedback.
C4_Witness ==
    /\ system = "astrology"
    /\ Len(aStates) = 3
    /\ RevealedPlanets(1) = <<>>
    /\ RevealedPlanets(2) = <<"sun">>
    /\ RevealedPlanets(3) = <<"moon">>
    /\ UserFeedback(1) = <<>>
    /\ UserFeedback(2) # UserFeedback(3)

\* C5: record_feedback of the astrology and the I Ching engine never raises:
\* not for an id get_next_reveal did not return, not for an id already
\* revealed, not on a complete state.
C5_RecordFeedbackNeverFails ==
    /\ (system \in {"astrology", "iching"} /\ result.op = "record_feedback")
          => ~result.raised
    /\ system = "astrology" =>
          \A planet_id \in AllPlanetIds, feedback \in Feedbacks :
             ~AstrologyEngine_record_feedback(heap, Current,
                                              planet_id, feedback).raised
    /\ system = "iching" =>
          \A feedback \in Feedbacks :
             ~IChingEngine_record_feedback(iState, feedback).raised

\* A call on a complete astrology state, with an id already revealed.
C5_Witness ==
    /\ system = "astrology"
    /\ result.op = "record_feedback"
    /\ ~result.raised
    /\ AstrologyEngine_is_complete(heap, aStates[result.arg])
    /\ result.input.planet_id \in Range(RevealedPlanets(result.arg))
    /\ Len(aStates) = result.arg + 1

\* C6: get_synthesis of the astrology engine raises on no state, whatever
\* the number of reveals, and states with the same chart give the same
\* summary whatever their revealedPlanets, revealedHouses and userFeedback;
\* the call changes nothing: the state handed in, every other state value
\* held, and every object they refer to (chart, revealedPlanets,
\* revealedHouses, userFeedback) are after the call what they were before.
C6_SynthesisDependsOnChartOnly ==
    /\ [](system = "astrology" =>
            /\ LET synthesis == [i \in DOMAIN aStates |->
                        AstrologyEngine_get_synthesis(heap, aStates[i])]
               IN  /\ \A i \in DOMAIN aStates : ~synthesis[i].raised
                   /\ \A i, j \in DOMAIN aStates :
                         Chart(i) = Chart(j)
                             => synthesis[i].value = synthesis[j].value
            /\ result.op = "get_synthesis" =>
                  /\ ~result.raised
                  /\ result.value.sunSign = Chart(result.arg).sun.sign
                  /\ result.value.moonSign = Chart(result.arg).moon.sign
                  /\ result.value.ascendant = Chart(result.arg).ascendant.sign)
    /\ [][(system = "astrology" /\ result'.op = "get_synthesis")
            => /\ aStates' = aStates
               /\ heap' = heap
               /\ \A k \in DOMAIN aStates :
                     /\ heap'[aStates'[k].chart] = heap[aStates[k].chart]
                     /\ heap'[aStates'[k].revealedPlanets]
                           = heap[aStates[k].revealedPlanets]
                     /\ heap'[aStates'[k].revealedHouses]
                           = heap[aStates[k].revealedHouses]
                     /\ heap'[aStates'[k].userFeedback]
                           = heap[aStates[k].userFeedback]
               /\ <<system, tState, iState>>' = <<system, tState, iState>>
               /\ result'.value
                     = AstrologyEngine_get_synthesis(
                           heap, aStates[result'.arg]).value]_vars

\* get_synthesis returned on the state with no reveal, while a state with the
\* same chart and two reveals is held.
C6_Witness ==
    /\ system = "astrology"
    /\ result.op = "get_synthesis"
    /\ result.arg = 1
    /\ RevealedPlanets(1) = <<>>
    /\ \E j \in DOMAIN aStates :
          /\ Len(RevealedPlanets(j)) = 2
          /\ Len(UserFeedback(j)) = 2
          /\ Chart(j) = Chart(1)

\* C7: the tarot and the I Ching engine enforce completeness before
\* synthesis: get_synthesis raises exactly on the states that are not
\* complete.
C7_SynthesisRequiresComplete ==
    /\ system = "tarot" =>
          (TarotEngine_get_synthesis(tState).raised
              <=> ~TarotEngine_is_complete(tState))
    /\ system = "iching" =>
          (IChingEngine_get_synthesis(iState).raised
              <=> ~IChingEngine_is_complete(iState))

\* C8: record_feedback of the tarot engine raises and returns no new state
\* once all drawn cards are revealed; so 0 <= revealedIndex <= len(drawnCards)
\* and len(userFeedback) = revealedIndex in every state.
C8_TarotFeedbackBounded ==
    system = "tarot" =>
        /\ 0 <= tState.revealedIndex
        /\ tState.revealedIndex <= Len(tState.drawnCards)
        /\ Len(tState.userFeedback) = tState.revealedIndex
        /\ \A feedback \in Feedbacks :
              LET r == TarotEngine_record_feedback(tState, feedback)
              IN  /\ r.raised <=> tState.revealedIndex >= Len(tState.drawnCards)
                  /\ r.raised => r.state = tState

\* record_feedback raised on a three-card reading with all three revealed.
C8_Witness ==
    /\ system = "tarot"
    /\ result.op = "record_feedback"
    /\ result.raised
    /\ Len(tState.drawnCards) = 3
    /\ tState.revealedIndex = 3
    /\ Len(tState.userFeedback) = 3

\* C9: in a tarot reading with n drawn cards, until n record_feedback calls
\* have succeeded is_complete is false and get_next_reveal returns the drawn
\* card and the spread position at index revealedIndex; from then on
\* is_complete is true and get_next_reveal returns None.
C9_TarotRevealCycle ==
    system = "tarot" =>
        LET n == Len(tState.drawnCards)
            reveal == TarotEngine_get_next_reveal(tState)
        IN  /\ count <= n
            /\ tState.revealedIndex = count
            /\ count < n =>
                  /\ ~TarotEngine_is_complete(tState)
                  /\ reveal # None
                  /\ reveal.card = tState.drawnCards[tState.revealedIndex + 1]
                  /\ reveal.position
                        = tState.spread.positions[tState.revealedIndex + 1]
                  /\ reveal.card.positionIndex = tState.revealedIndex
            /\ count = n =>
                  /\ TarotEngine_is_complete(tState)
                  /\ reveal = None
            /\ TarotEngine_is_complete(tState) <=> (reveal = None)
            /\ (pc = "done") => count = n
            /\ Len(log) = count
            /\ \A k \in DOMAIN log :
                  /\ log[k].card = tState.drawnCards[k]
                  /\ log[k].position = tState.spread.positions[k]

\* The three-card loop has ended and a further record_feedback was refused.
C9_Witness ==
    /\ system = "tarot"
    /\ pc = "done"
    /\ count = 3
    /\ off = 2
    /\ result.raised
    /\ TarotEngine_is_complete(tState)

\* C10: the I Ching reveal loop takes len(changingLines) steps and hands out
\* the changing line positions in ascending order, each once; is_complete
\* holds exactly when get_next_reveal returns None: at once when no line
\* changes, and still after further record_feedback calls.
C10_IChingRevealCycle ==
    system = "iching" =>
        LET changing == iState.castResult.changingLines
            reveal == IChingEngine_get_next_reveal(iState)
        IN  /\ count <= Len(changing)
            /\ IChingEngine_is_complete(iState) <=> (reveal = None)
            /\ IChingEngine_is_complete(iState) <=> (count = Len(changing))
            /\ (pc = "done") => count = Len(changing)
            /\ iState.revealedLines = count + off
            /\ Len(log) = count
            /\ \A k \in DOMAIN log : log[k] = changing[k]
            /\ \A k, l \in DOMAIN log : k < l => log[k] < log[l]
            /\ \A k \in DOMAIN changing :
                  iState.castResult.lines[changing[k]] \in {6, 9}
            /\ (changing = <<>> /\ count = 0) => IChingEngine_is_complete(iState)

\* Lines 2, 4 and 6 change; the loop has ended after three steps and two
\* more record_feedback calls were made.
C10_Witness ==
    /\ system = "iching"
    /\ pc = "done"
    /\ count = 3
    /\ off = 2
    /\ log = <<2, 4, 6>>
    /\ iState.revealedLines = 5
    /\ IChingEngine_is_complete(iState)

\* C11: whatever the 18 coins show, cast_hexagram returns six line values in
\* {6, 7, 8, 9} and a binary of six digits 0/1; changingLines are exactly the
\* positions (1-based, ascending) of the values 6 and 9; the transformed
\* number and binary are None exactly when no line changes, and the
\* transformed binary differs from the binary exactly at the changing lines.
C11_CastHexagramShape ==
    result.op = "cast_hexagram" =>
        LET r == result.value
            changing == {k \in 1..6 : r.lines[k] \in {6, 9}}
        IN  /\ Len(r.lines) = 6
            /\ \A k \in 1..6 : r.lines[k] \in {6, 7, 8, 9}
            /\ \A k \in 1..6 : r.lines[k] = cast_lines[k][1]
            /\ Len(r.binary) = 6
            /\ \A k \in 1..6 : r.binary[k] \in {0, 1}
            /\ Range(r.changingLines) = changing
            /\ \A k \in 1..(Len(r.changingLines) - 1) :
                  r.changingLines[k] < r.changingLines[k + 1]
            /\ (r.transformedHexagramNumber = Nothing) <=> (changing = {})
            /\ (r.transformedBinary = Nothing) <=> (changing = {})
            /\ r.transformedBinary # Nothing =>
                  /\ Len(r.transformedBinary[1]) = 6
                  /\ \A k \in 1..6 :
                        /\ r.transformedBinary[1][k] \in {0, 1}
                        /\ (r.transformedBinary[1][k] # r.binary[k])
                              <=> (k \in changing)

\* A cast with an old yin at line 2 and an old yang at line 5.
C11_Witness ==
    /\ result.op = "cast_hexagram"
    /\ result.value.lines = <<7, 6, 8, 7, 9, 8>>
    /\ result.value.changingLines = <<2, 5>>
    /\ result.value.binary = <<1, 0, 0, 1, 1, 0>>
    /\ result.value.transformedBinary = Some(<<1, 1, 0, 1, 0, 0>>)

\* C15: to_julian_day(2000,1,1,12,0) is 2451545.0 and
\* to_julian_day(1990,4,10,0,0) is 2447991.5.
C15_JulianDayEpochs ==
    result.op = "to_julian_day" =>
        /\ result.input = [year |-> 2000, month |-> 1, day |-> 1,
                           hour |-> 12, minute |-> 0]
              => result.value = [days |-> 2451545, minutes |-> 0]
        /\ result.input = [year |-> 1990, month |-> 4, day |-> 10,
                           hour |-> 0, minute |-> 0]
              => result.value = [days |-> 2447991, minutes |-> 720]

\* The call for the J2000.0 epoch has returned.
C15_Witness ==
    /\ result.op = "to_julian_day"
    /\ ~result.raised
    /\ result.input.year = 2000 /\ result.input.month = 1
    /\ result.input.day = 1 /\ result.input.hour = 12
    /\ result.value.days = 2451545

\* The standard Julian Day algorithm (Meeus): January and February count as
\* months 13 and 14 of the year before; the century correction B applies to
\* Gregorian dates (from 15 October 1582) and is 0 for Julian-calendar dates.
StandardJulianDay(year, month, day, hour, minute) ==
    LET y == IF month <= 2 THEN year - 1 ELSE year
        m == IF month <= 2 THEN month + 12 ELSE month
        gregorian == \/ year > 1582
                     \/ year = 1582 /\ month > 10
                     \/ year = 1582 /\ month = 10 /\ day >= 15
        A == y \div 100
        B == IF gregorian THEN 2 - A + (A \div 4) ELSE 0
        whole == ((1461 * (y + 4716)) \div 4) + ((306001 * (m + 1)) \div 10000)
                     + day + B
        day_minutes == hour * 60 + minute + 720
    IN  [days |-> whole - 1525 + (day_minutes \div 1440),
         minutes |-> day_minutes % 1440]

\* The ten days dropped by the calendar reform: 5 to 14 October 1582.
DateExists(d) ==
    ~(d.year = 1582 /\ d.month = 10 /\ d.day >= 5 /\ d.day <= 14)

\* C16: to_julian_day equals the standard Julian Day algorithm on both sides
\* of October 1582: Julian-calendar dates before, Gregorian dates after,
\* years before 1 CE included.
C16_JulianDayIsStandard ==
    (result.op = "to_julian_day" /\ DateExists(result.input)) =>
        result.value = StandardJulianDay(result.input.year, result.input.month,
                                         result.input.day, result.input.hour,
                                         result.input.minute)

(***************************************************************************)
(* C12.  For every computed chart, each of the ten planet positions has    *)
(* its stored totalDegrees (rounded to two decimals) in [0, 360) and its   *)
(* house in 1..12, and houseCusps has exactly twelve entries.              *)
(* The code rounds after the reduction to [0, 360): a longitude of         *)
(* 359.995 or more is stored as 360.0.                                     *)
(***************************************************************************)
ChartPlanets(chart) ==
    { chart.sun, chart.moon, chart.mercury, chart.venus, chart.mars,
      chart.jupiter, chart.saturn, chart.uranus, chart.neptune, chart.pluto }

C12_ChartRanges ==
    \A i \in DOMAIN calls :
        /\ \A p \in ChartPlanets(calls[i].chart) :
              /\ 0 <= p.totalDegrees
              /\ p.totalDegrees < FullCircle
              /\ p.house \in 1..12
        /\ Len(calls[i].chart.houseCusps) = 12

(***************************************************************************)
(* C13.  Every SignPosition returned by degrees_to_sign and every          *)
(* position stored in a computed chart has totalDegrees in [0, 360),       *)
(* degrees in [0, 30), sign = SIGN_ORDER[floor(totalDegrees / 30)] and     *)
(* degrees = totalDegrees - 30 * floor(totalDegrees / 30).                 *)
(* _build_position takes the sign from the unrounded longitude and then    *)
(* rounds degrees and totalDegrees, which can carry them over a boundary.  *)
(***************************************************************************)
SignPositionHolds(p) ==
    /\ 0 <= p.totalDegrees
    /\ p.totalDegrees < FullCircle
    /\ 0 <= p.degrees
    /\ p.degrees < SignWidth
    /\ p.sign = SIGN_ORDER[(p.totalDegrees \div SignWidth) + 1]
    /\ p.degrees = p.totalDegrees - SignWidth * (p.totalDegrees \div SignWidth)

C13_SignMatchesTotalDegrees ==
    /\ (result.op = "degrees_to_sign" /\ ~result.raised)
           => SignPositionHolds(result.value)
    /\ \A i \in DOMAIN calls :
           \A p \in ChartPlanets(calls[i].chart)
                       \cup {calls[i].chart.ascendant,
                             calls[i].chart.midheaven} :
               SignPositionHolds(p)

(***************************************************************************)
(* C14.  For every longitude x, negative, zero or positive, and every      *)
(* integer k, degrees_to_sign(x) and degrees_to_sign(x + 360k) return the  *)
(* same sign and the same degrees within the sign.                         *)
(* For a negative x so small that x % 360 rounds to 360.0 the call raises  *)
(* IndexError, while x + 360 is the float 360.0 and gives aries 0.         *)
(***************************************************************************)
Turns == (-MaxTurns)..MaxTurns

C14_DegreesToSignPeriodic ==
    result.op = "degrees_to_sign" =>
        \A k \in Turns :
            LET here == degrees_to_sign_call(result.input)
                there == degrees_to_sign_call(PlusTurns(result.input, k))
            IN  /\ ~here.raised
                /\ ~there.raised
                /\ here.value.sign = there.value.sign
                /\ here.value.degrees = there.value.degrees

(***************************************************************************)
(* C17.  Whatever subset of the optional BirthData fields is None, the     *)
(* chart is the chart of the BirthData with those fields set to day 1,     *)
(* hour 12, minute 0, latitude 0, longitude 0, timezone 0; and the fields  *)
(* that are given, 0 included, are used as given: the Sun and the          *)
(* Ascendant are those of the given moment and place.                      *)
(***************************************************************************)
GivenOr(field, default) == IF field = Nothing THEN default ELSE field[1]

WithExplicitDefaults(b) ==
    [b EXCEPT !.day = Some(GivenOr(b.day, 1)),
              !.hour = Some(GivenOr(b.hour, 12)),
              !.minute = Some(GivenOr(b.minute, 0)),
              !.latitude = Some(GivenOr(b.latitude, 0)),
              !.longitude = Some(GivenOr(b.longitude, 0)),
              !.timezone = Some(GivenOr(b.timezone, 0))]

C17_NoneFieldsDefault ==
    \A i \in DOMAIN calls :
        LET b == calls[i].birth_data
            e == WithExplicitDefaults(b)
            jd == to_julian_day(e.year, e.month, e.day[1],
                                e.hour[1] - e.timezone[1], e.minute[1])
            angles == AscendantAndMidheaven(jd, e.latitude[1], e.longitude[1])
        IN  /\ calls[i].chart = calculate_natal_chart(e, Nothing).value
            /\ calls[i].chart.sun =
                   _build_position("sun", sun_longitude(jd),
                                   _equal_house_cusps(angles.asc_deg), FALSE)
            /\ calls[i].chart.ascendant = degrees_to_sign(angles.asc_deg)

\* A chart was computed with day and timezone None and the hour given, and
\* it is not the chart of the birth with every field None.
C17_Witness ==
    /\ calls # <<>>
    /\ calls[1].birth_data.day = Nothing
    /\ calls[1].birth_data.timezone = Nothing
    /\ calls[1].birth_data.hour = Some(10)
    /\ calls[1].chart # calculate_natal_chart(
                            [calls[1].birth_data EXCEPT !.hour = Nothing],
                            Nothing).value

(***************************************************************************)
(* C18.  Chart computation is a pure function: any two calls of            *)
(* calculate_natal_chart with equal BirthData return equal charts,         *)
(* whatever was called in between and whether the aspect-definition cache  *)
(* was empty or filled when the call was made.                             *)
(***************************************************************************)
C18_ChartIsPure ==
    \A i, j \in DOMAIN calls :
        calls[i].birth_data = calls[j].birth_data
            => calls[i].chart = calls[j].chart

\* The same birth was charted on an empty cache and then on a filled one,
\* and the chart has aspects, which come out of the cached table.
C18_Witness ==
    /\ Len(calls) >= 2
    /\ calls[1].birth_data = calls[2].birth_data
    /\ calls[1].cold
    /\ ~calls[2].cold
    /\ calls[2].chart.aspects # <<>>
    /\ result.op = "calculate_natal_chart"

(***************************************************************************)
(* C19.  For every identifier without orbital elements ('sun', 'moon',     *)
(* 'ascendant', ...) both heliocentric_longitude and geocentric_longitude  *)
(* fail with the unknown-body error, and geocentric_longitude('earth')     *)
(* fails with a different error; no longitude is returned in these cases.  *)
(* geocentric_longitude has no check of its own for an unknown identifier: *)
(* the lookup ORBITAL_ELEMENTS[planet_id] raises KeyError.                 *)
(***************************************************************************)
UnknownBodyError(planet_id) ==
    [type |-> "ValueError",
     message |-> "No orbital elements for: " \o planet_id]

C19_OrbitalLongitudeErrors ==
    result.op \in {"heliocentric_longitude", "geocentric_longitude"} =>
        LET planet_id == result.input.planet_id
            known == \E k \in DOMAIN ORBITAL_ELEMENTS :
                         ORBITAL_ELEMENTS[k] = planet_id
        IN  /\ ~known => (/\ result.raised
                          /\ result.value = UnknownBodyError(planet_id))
            /\ (result.op = "geocentric_longitude" /\ planet_id = "earth")
                   => (/\ result.raised
                       /\ result.value # UnknownBodyError(planet_id))

(***************************************************************************)
(* C20.  The list calculate_aspects returns has every orb >= 0 and is      *)
(* sorted non-decreasing by orb, and entries of equal orb stand in the     *)
(* order of their discovery: by planet pair first, then by aspect          *)
(* definition.                                                             *)
(***************************************************************************)
\* Where the loops meet an entry: the indexes of its planets in the list
\* handed in and of its definition in the table.
DiscoveryKey(names, a) ==
    << CHOOSE k \in DOMAIN names : names[k] = a.planet1,
       CHOOSE k \in DOMAIN names : names[k] = a.planet2,
       CHOOSE k \in DOMAIN AspectDefinitions :
           AspectDefinitions[k].name = a.aspectName >>

KeyBefore(x, y) ==
    \/ x[1] < y[1]
    \/ x[1] = y[1] /\ x[2] < y[2]
    \/ x[1] = y[1] /\ x[2] = y[2] /\ x[3] < y[3]

SortedKeepingDiscoveryOrder(names, aspects) ==
    /\ \A i \in DOMAIN aspects : aspects[i].orb >= 0
    /\ \A i, j \in DOMAIN aspects :
           i < j =>
               /\ aspects[i].orb <= aspects[j].orb
               /\ aspects[i].orb = aspects[j].orb
                      => KeyBefore(DiscoveryKey(names, aspects[i]),
                                   DiscoveryKey(names, aspects[j]))

C20_AspectsSortedStable ==
    /\ result.op = "calculate_aspects"
           => SortedKeepingDiscoveryOrder(
                  [k \in DOMAIN result.input |-> result.input[k].planet],
                  result.value)
    /\ \A i \in DOMAIN calls :
           SortedKeepingDiscoveryOrder(Planets, calls[i].chart.aspects)

\* calculate_aspects returned a list with two entries of equal orb and two
\* of different orb, and not in the order of discovery: the sort moved
\* entries.
C20_Witness ==
    /\ result.op = "calculate_aspects"
    /\ \E i, j \in DOMAIN result.value :
           i < j /\ result.value[i].orb = result.value[j].orb
    /\ \E i, j \in DOMAIN result.value :
           i < j /\ result.value[i].orb < result.value[j].orb
    /\ result.value # DiscoveredAspects(result.input, AspectDefinitions)

(***************************************************************************)
(* C21.  Whatever the random choices, shuffle_deck returns a permutation   *)
(* of its input (the same cards, the same length) and leaves the input     *)
(* list as it was; draw_cards(deck, count) with 0 <= count <= len(deck)    *)
(* returns the first count cards of the deck, positionIndex i at index i;  *)
(* so a tarot reading's drawn cards are spread.cardCount pairwise distinct *)
(* cards.                                                                  *)
(***************************************************************************)
Occurrences(s, x) == Cardinality({k \in DOMAIN s : s[k] = x})

IsPermutationOf(s, t) ==
    /\ Len(s) = Len(t)
    /\ \A k \in DOMAIN t : Occurrences(s, t[k]) = Occurrences(t, t[k])

C21_ShuffleAndDraw ==
    /\ result.op = "shuffle_deck"
           => /\ IsPermutationOf(result.value.value, result.input)
              /\ result.value.cards = result.input
    /\ (result.op = "draw_cards"
            /\ result.input.count \in 0..Len(result.input.deck))
           => /\ ~result.raised
              /\ Len(result.value) = result.input.count
              /\ \A i \in 0..(result.input.count - 1) :
                     /\ result.value[i + 1].card = result.input.deck[i + 1]
                     /\ result.value[i + 1].positionIndex = i
    /\ (system = "none" /\ tState # None)
           => /\ Len(tState.drawnCards) = tState.spread.cardCount
              /\ \A a, b \in DOMAIN tState.drawnCards :
                     a # b => tState.drawnCards[a].card
                                  # tState.drawnCards[b].card

\* A shuffle that moved cards was followed by a draw of at least two of
\* them.
C21_Witness ==
    /\ result.op = "draw_cards"
    /\ ~result.raised
    /\ Len(result.value) >= 2
    /\ result.input.deck # SubSeq(Cards, 1, Len(result.input.deck))

(***************************************************************************)
(* C22.  For every month in 1..12 and day in 1..31, calculate_sun_sign     *)
(* returns the sign whose traditional start date is the latest one not     *)
(* after (month, day): capricorn from December 22 through January 19,      *)
(* aquarius from January 20, pisces from February 19, aries from March 21, *)
(* and so on; the capricorn fallback after the loop is never reached.      *)
(***************************************************************************)
TraditionalStarts ==
    { <<1, 20, "aquarius">>, <<2, 19, "pisces">>, <<3, 21, "aries">>,
      <<4, 20, "taurus">>, <<5, 21, "gemini">>, <<6, 21, "cancer">>,
      <<7, 23, "leo">>, <<8, 23, "virgo">>, <<9, 23, "libra">>,
      <<10, 23, "scorpio">>, <<11, 22, "sagittarius">>,
      <<12, 22, "capricorn">> }

DateNotAfter(s, month, day) ==
    s[1] < month \/ (s[1] = month /\ s[2] <= day)

\* The sign in force on a date: the latest start not after it, and before
\* the year's first start the sign of the last start of the year before.
TraditionalSign(month, day) ==
    LET started == {s \in TraditionalStarts : DateNotAfter(s, month, day)}
    IN  IF started = {} THEN "capricorn"
        ELSE (CHOOSE s \in started :
                  \A t \in started : DateNotAfter(t, s[1], s[2]))[3]

C22_SunSignByDate ==
    result.op = "calculate_sun_sign" =>
        /\ result.value.sign
               = TraditionalSign(result.input.month, result.input.day)
        /\ ~result.value.fallback

\* The call was made on a date in the last days of a sign other than
\* capricorn.
C22_Witness ==
    /\ result.op = "calculate_sun_sign"
    /\ result.input = [month |-> 3, day |-> 20]
    /\ result.value.sign = "pisces"

(***************************************************************************)
(* C23.  For the twelve equal-house cusps of any ascendant in [0, 360),    *)
(* cusp i = (ascendant + 30 i) mod 360, and any longitude in [0, 360),     *)
(* exactly one pair of consecutive cusps matches in _house_for_longitude,  *)
(* the house returned is that pair's index + 1, in 1..12, and the          *)
(* 'return 1' after the loop is never reached.                             *)
(***************************************************************************)
C23_ExactlyOneHouse ==
    result.op = "_house_for_longitude" =>
        LET cusps == result.input.cusps
            longitude == result.input.longitude
            reached == {k \in 1..12 : CuspCompare(cusps, k, longitude) <= 0}
            matching ==
                {i \in 1..12 :
                    \E from_cusp \in {i \in reached},
                       before_next \in {((i % 12) + 1) \notin reached} :
                        \/ cusps[i].milli < cusps[(i % 12) + 1].milli
                               /\ from_cusp /\ before_next
                        \/ cusps[i].milli >= cusps[(i % 12) + 1].milli
                               /\ (from_cusp \/ before_next)}
        IN  /\ \A i \in 1..12 :
                   cusps[i].milli
                       = (result.input.asc_deg + SignWidth * (i - 1))
                             % FullCircle
            /\ Cardinality(matching) = 1
            /\ result.value \in matching
            /\ result.value \in 1..12

\* The longitude lies in the house whose cusps wrap around 0 degrees, and
\* that house is not the first.
C23_Witness ==
    /\ result.op = "_house_for_longitude"
    /\ result.value # 1
    /\ result.input.cusps[(result.value % 12) + 1].milli
           < result.input.cusps[result.value].milli
    /\ result.input.longitude
           < result.input.cusps[(result.value % 12) + 1].milli

(***************************************************************************)
(* C24.  calculate_aspects considers every unordered pair of the given     *)
(* positions once, planet1 before planet2 in input order and never a       *)
(* planet with itself; the separation is |lon1 - lon2| folded into         *)
(* [0, 180]; for a pair and a definition there is exactly one entry when   *)
(* |separation - exactDegrees| <= orb tolerance and none otherwise, so a   *)
(* pair that matches several definitions has several entries.  The         *)
(* differences are differences of floats: where the thousandths put the    *)
(* deviation on the tolerance itself, the doubles decide.                  *)
(***************************************************************************)
FoldedSeparation(lon1, lon2) ==
    LET d == IF lon1 >= lon2 THEN lon1 - lon2 ELSE lon2 - lon1
    IN  IF d > HalfCircle THEN FullCircle - d ELSE d

EntriesFor(aspects, positions, definitions, i, j, d) ==
    {k \in DOMAIN aspects :
        /\ aspects[k].planet1 = positions[i].planet
        /\ aspects[k].planet2 = positions[j].planet
        /\ aspects[k].aspectName = definitions[d].name}

C24_OneEntryPerMatch ==
    result.op = "calculate_aspects" =>
        LET positions == result.input
            definitions == _aspect_defs_cache[1]
            aspects == result.value
        IN  /\ \A i, j \in DOMAIN positions, d \in DOMAIN definitions :
                   LET separation ==
                           FoldedSeparation(positions[i].totalDegrees,
                                            positions[j].totalDegrees)
                       deviation ==
                           IF separation >= definitions[d].degrees
                           THEN separation - definitions[d].degrees
                           ELSE definitions[d].degrees - separation
                       entries == EntriesFor(aspects, positions, definitions,
                                             i, j, d)
                       within ==
                           \/ deviation < definitions[d].orb
                           \/ /\ deviation = definitions[d].orb
                              /\ Binary64("order", <<>>,
                                     << [of |-> "orb",
                                         x |-> [p1 |->
                                                 positions[i].totalDegrees,
                                                p2 |->
                                                 positions[j].totalDegrees,
                                                degrees |->
                                                 definitions[d].degrees]],
                                        Double(definitions[d].orb) >>) <= 0
                   IN  /\ i >= j => entries = {}
                       /\ (i < j /\ within)
                              => /\ Cardinality(entries) = 1
                                 /\ \A k \in entries :
                                        /\ aspects[k].actualDegrees
                                               = separation
                                        /\ aspects[k].exactDegrees
                                               = definitions[d].degrees
                       /\ (i < j /\ ~within) => entries = {}
            /\ \A k \in DOMAIN aspects :
                   \E i, j \in DOMAIN positions, d \in DOMAIN definitions :
                       k \in EntriesFor(aspects, positions, definitions,
                                        i, j, d)

\* One pair matched two definitions, another pair matched none, and a
\* separation was folded.
C24_Witness ==
    /\ result.op = "calculate_aspects"
    /\ \E k, l \in DOMAIN result.value :
           /\ k # l
           /\ result.value[k].planet1 = "sun"
           /\ result.value[l].planet1 = "sun"
           /\ result.value[k].planet2 = "moon"
           /\ result.value[l].planet2 = "moon"
    /\ \A k \in DOMAIN result.value : result.value[k].planet1 # "moon"
    /\ \E k \in DOMAIN result.value :
           /\ result.value[k].planet2 = "mars"
           /\ result.input[3].totalDegrees - result.input[1].totalDegrees
                  > HalfCircle

(***************************************************************************)
(* C25.  In every chart the Sun and the Moon are not retrograde; any other *)
(* planet is retrograde exactly when the shortest-path signed difference   *)
(* between its geocentric longitude at JD + 1 and at JD - 1 is negative:   *)
(* forward motion across 0/360 is not retrograde, backward motion across   *)
(* it is.                                                                  *)
(***************************************************************************)
\* The signed difference to - from taken the short way round, in
\* [-180, 180).
ShortestPath(from, to) ==
    ((to - from + HalfCircle) % FullCircle) - HalfCircle

BirthJulianDay(b) ==
    to_julian_day(b.year, b.month, GivenOr(b.day, 1),
                  GivenOr(b.hour, 12) - GivenOr(b.timezone, 0),
                  GivenOr(b.minute, 0))

C25_RetrogradeBySignedDifference ==
    result.op = "calculate_natal_chart" =>
        LET planet == result.input.planet
            jd == BirthJulianDay(result.input.birth_data)
            before == [jd EXCEPT !.days = @ - 1]
            after == [jd EXCEPT !.days = @ + 1]
        IN  /\ result.value.planet = planet
            /\ planet \in {"sun", "moon"} => ~result.value.retrograde
            /\ planet \notin {"sun", "moon"} =>
                   (result.value.retrograde
                        <=> ShortestPath(
                                geocentric_longitude(planet, before).value,
                                geocentric_longitude(planet, after).value)
                                < 0)

\* A planet that passed 0 degrees backward between the day before and the
\* day after is retrograde in the chart.
C25_Witness ==
    /\ result.op = "calculate_natal_chart"
    /\ result.input.planet = "mercury"
    /\ result.value.retrograde
    /\ LET jd == BirthJulianDay(result.input.birth_data)
       IN  /\ geocentric_longitude("mercury",
                                   [jd EXCEPT !.days = @ - 1]).value
                  < SignWidth
           /\ geocentric_longitude("mercury",
                                   [jd EXCEPT !.days = @ + 1]).value
                  > FullCircle - SignWidth

(***************************************************************************)
(* C26.  solve_kepler makes at most 50 Newton-Raphson iterations and stops *)
(* with the first step whose magnitude is below 1e-12.  When M is finite   *)
(* and 0 <= e < 1 it returns a value without raising, also when all 50     *)
(* steps stayed above the tolerance.  Outside that domain it can raise:    *)
(* ZeroDivisionError where the divisor 1 - e * cos(E) is zero, as in       *)
(* solve_kepler(0.0, 1.0), and ValueError for an infinite M.  A call that  *)
(* raises does so in a pass of the loop, never after the cap.              *)
(***************************************************************************)
C26_KeplerBoundedIterations ==
    /\ count <= MaxIterations
    /\ \A k \in 1..(Len(log) - 1) : log[k] = "above"
    /\ (/\ result.input.M \in {"zero", "finite"}
        /\ result.input.e >= 0
        /\ result.input.e < 1000) => ~result.raised
    /\ pc = "return" => (log[Len(log)] = "below" \/ count = MaxIterations)
    /\ (pc = "for" /\ log # <<>>) => log[Len(log)] = "above"
    /\ (pc = "done" /\ ~result.raised)
           => /\ result.op = "solve_kepler"
              /\ result.value.iterations = Len(log)
              /\ result.value.iterations \in 1..MaxIterations
    /\ (pc = "done" /\ result.raised)
           => /\ result.op = "solve_kepler"
              /\ log[Len(log)] = result.value.type
              /\ result.value \in {KeplerError("ZeroDivisionError"),
                                   KeplerError("ValueError")}
              /\ result.value.type = "ValueError" <=> result.input.M = "inf"
              /\ result.value.type = "ZeroDivisionError"
                     => result.input.e >= 1000

\* The call on an elliptic orbit returned after 50 iterations whose last
\* step was still above the tolerance.
C26_Witness ==
    /\ pc = "done"
    /\ result.op = "solve_kepler"
    /\ ~result.raised
    /\ result.input = [M |-> "finite", e |-> 999]
    /\ result.value.iterations = MaxIterations
    /\ log[MaxIterations] = "above"

\* C26 as first stated: solve_kepler always returns a value without
\* raising, whatever M and e are.
C26_AlwaysReturns ==
    (pc = "done" /\ result.op = "solve_kepler") => ~result.raised

(***************************************************************************)
(* C27.  One natal chart computation calls the Kepler solver exactly 18    *)
(* times, once per planet position evaluation, and never for the Sun or    *)
(* the Moon.                                                               *)
(* geocentric_longitude solves Kepler's equation twice, for the Earth and  *)
(* for the planet, and a chart evaluates it three times for each of eight  *)
(* planets: 48 calls.                                                      *)
(***************************************************************************)
C27_EighteenKeplerCalls ==
    /\ \A k \in DOMAIN log : log[k].planet \notin {"sun", "moon"}
    /\ pc = "done" => Len(log) = 18

\* C28: over a sequence of aspect calculations made one after the other in
\* one process, only the first call reads aspects.json; every later call
\* works with the table the first call loaded and reads nothing; and once
\* the table is cached no step changes it.
C28_TableReadOnce ==
    /\ [](\A k \in DOMAIN calls :
             /\ calls[k].read <=> k = 1
             /\ calls[k].definitions = calls[1].definitions)
    /\ [][_aspect_defs_cache # Nothing
             => _aspect_defs_cache' = _aspect_defs_cache]_vars

C28_Witness ==
    /\ Len(calls) = MaxAspectCalls
    /\ calls[1].read
    /\ ~ calls[MaxAspectCalls].read
    /\ {calls[k].op : k \in DOMAIN calls}
          = {"calculate_aspects", "calculate_natal_chart", "start_reading"}
    /\ _aspect_defs_cache = Some(calls[1].definitions)

\* C29: when threads call the I Ching lookups concurrently on a cold cache,
\* whenever _build_lookups has returned to a caller all three maps are
\* initialised, and no caller's "is not None" assertion fails.
C29_LookupsBuiltOnReturn ==
    \A t \in Threads :
        /\ pc[t] = "returned"
              => /\ _trigram_by_number # Nothing
                 /\ _hexagram_by_number # Nothing
                 /\ _binary_to_number # Nothing
        /\ pc[t] = "done"
              => ~ (/\ result[t].raised
                    /\ result[t].value.type = "AssertionError")

\* C30: for every astrology state reached from start_reading by
\* record_feedback calls with any planet ids, is_complete is true exactly
\* when get_next_reveal returns None.
C30_CompleteIffNoNextReveal ==
    system = "astrology" =>
        \A i \in DOMAIN aStates :
            AstrologyEngine_is_complete(heap, aStates[i])
                <=> AstrologyEngine_get_next_reveal(heap, aStates[i]) = None

====
